---- MODULE Spec2Model ----
(***************************************************************************)
(* GDG_Emails: the send pipeline of the dashboard.                         *)
(*   utils/validators.py            recipient parsing                      *)
(*   email_service/message_builder  template rendering, MIME assembly      *)
(*   email_service/smtp_client      the scoped SMTP session                *)
(*   app.py                         validate_form, send_email_robust       *)
(* A Python str is a sequence of one-character strings, so that replace,   *)
(* split, strip and join are computed as Python computes them.             *)
(***************************************************************************)
EXTENDS Integers, Sequences, FiniteSets, TLC

\* ------------------------------------------------------------------ bounds
\* largest max_retries argument a call is given
MaxRetriesArg == 2
\* largest number of calls made on a client used directly
MaxCalls == 4
\* largest number of descriptors in a batch
MaxBatch == 3
\* largest number of attachments handed to build
MaxAttachments == 2
\* largest number of entries typed into a recipient field
MaxEntries == 3

\* --------------------------------------------------------- program constants
DefaultMaxRetries == 2
MinEmailLen == 3
MaxEmailLen == 254
MaxLocalLen == 64
MinDomainLen == 3
MaxLabelInner == 61
MinPasswordLen == 16
MaxSubjectLen == 998
MaxWorkers == 4

\* ------------------------------------------------------------ Python strings
Whitespace == {" ", "\t", "\n", "\r"}

Range(s) == {s[i] : i \in 1..Len(s)}

RECURSIVE str_replace(_, _, _)
\* s.replace(old, new): leftmost non-overlapping occurrences, old non-empty
str_replace(s, old, new) ==
  IF Len(s) < Len(old) THEN s
  ELSE IF SubSeq(s, 1, Len(old)) = old
       THEN new \o str_replace(SubSeq(s, Len(old) + 1, Len(s)), old, new)
       ELSE <<s[1]>> \o str_replace(Tail(s), old, new)

RECURSIVE str_split(_, _)
\* s.split(sep) for a one-character sep: always at least one piece
str_split(s, sep) ==
  IF \A i \in 1..Len(s) : s[i] # sep THEN <<s>>
  ELSE LET i == CHOOSE k \in 1..Len(s) :
                  s[k] = sep /\ \A j \in 1..(k - 1) : s[j] # sep
       IN <<SubSeq(s, 1, i - 1)>> \o str_split(SubSeq(s, i + 1, Len(s)), sep)

RECURSIVE str_lstrip(_)
str_lstrip(s) ==
  IF s # <<>> /\ s[1] \in Whitespace THEN str_lstrip(Tail(s)) ELSE s

RECURSIVE str_rstrip(_)
str_rstrip(s) ==
  IF s # <<>> /\ s[Len(s)] \in Whitespace
  THEN str_rstrip(SubSeq(s, 1, Len(s) - 1)) ELSE s

\* s.strip()
str_strip(s) == str_rstrip(str_lstrip(s))

RECURSIVE str_join(_, _)
\* sep.join(parts)
str_join(sep, parts) ==
  IF parts = <<>> THEN <<>>
  ELSE IF Len(parts) = 1 THEN parts[1]
  ELSE parts[1] \o sep \o str_join(sep, Tail(parts))

\* s.count(ch) for a one-character ch
str_count(s, ch) == Cardinality({i \in 1..Len(s) : s[i] = ch})

\* ------------------------------------------------------ utils/validators.py
Letters ==
  {"a","b","c","d","e","f","g","h","i","j","k","l","m",
   "n","o","p","q","r","s","t","u","v","w","x","y","z",
   "A","B","C","D","E","F","G","H","I","J","K","L","M",
   "N","O","P","Q","R","S","T","U","V","W","X","Y","Z"}
Digits == {"0","1","2","3","4","5","6","7","8","9"}
AlnumChars == Letters \cup Digits
\* the character class of the local part (the backquote, which a TLA+ string
\* cannot hold, is left out; no input of the model contains one)
AtomChars ==
  AlnumChars \cup {".","!","#","$","%","&","'","*","+","/","=","?","^","_",
                   "{","|","}","~","-"}

\* [a-zA-Z0-9](?:[a-zA-Z0-9-]{0,61}[a-zA-Z0-9])?
LabelMatch(l) ==
  /\ Len(l) >= 1
  /\ Len(l) <= MaxLabelInner + 2
  /\ l[1] \in AlnumChars
  /\ l[Len(l)] \in AlnumChars
  /\ \A i \in 1..Len(l) : l[i] \in AlnumChars \cup {"-"}

\* ^atom+@label(\.label)+ over the whole of s
PatternFullMatch(s) ==
  /\ str_count(s, "@") = 1
  /\ LET at     == CHOOSE i \in 1..Len(s) : s[i] = "@"
         local  == SubSeq(s, 1, at - 1)
         labels == str_split(SubSeq(s, at + 1, Len(s)), ".")
     IN /\ Len(local) >= 1
        /\ \A i \in 1..Len(local) : local[i] \in AtomChars
        /\ Len(labels) >= 2
        /\ \A k \in 1..Len(labels) : LabelMatch(labels[k])

\* EMAIL_PATTERN.match(s): "$" also matches just before a final newline
EMAIL_PATTERN_match(s) ==
  \/ PatternFullMatch(s)
  \/ /\ s # <<>>
     /\ s[Len(s)] = "\n"
     /\ PatternFullMatch(SubSeq(s, 1, Len(s) - 1))

\* faulty variant: the address is tested as it was passed, not trimmed
is_valid_email_untrimmed(email0) ==
  IF email0 = <<>> THEN FALSE
  ELSE LET email == email0 IN
    IF Len(email) < MinEmailLen \/ Len(email) > MaxEmailLen THEN FALSE
    ELSE IF str_count(email, "@") # 1 THEN FALSE
    ELSE LET at     == CHOOSE i \in 1..Len(email) : email[i] = "@"
             local  == SubSeq(email, 1, at - 1)
             domain == SubSeq(email, at + 1, Len(email))
         IN IF Len(local) > MaxLocalLen \/ Len(local) < 1 THEN FALSE
            ELSE IF Len(domain) < MinDomainLen THEN FALSE
            ELSE PatternFullMatch(email)

\* is_valid_email(email)
is_valid_email(email0) ==
  IF email0 = <<>> THEN FALSE
  ELSE LET email == str_strip(email0) IN
    IF Len(email) < MinEmailLen \/ Len(email) > MaxEmailLen THEN FALSE
    ELSE IF str_count(email, "@") # 1 THEN FALSE
    ELSE LET at     == CHOOSE i \in 1..Len(email) : email[i] = "@"
             local  == SubSeq(email, 1, at - 1)
             domain == SubSeq(email, at + 1, Len(email))
         IN IF Len(local) > MaxLocalLen \/ Len(local) < 1 THEN FALSE
            ELSE IF Len(domain) < MinDomainLen THEN FALSE
            ELSE EMAIL_PATTERN_match(email)

NonEmpty(s) == s # <<>>
NotValidEmail(s) == ~is_valid_email(s)

\* [p.strip() for p in s.split(sep)], as a sequence
StrippedPieces(s, sep) ==
  LET pieces == str_split(s, sep)
  IN [i \in 1..Len(pieces) |-> str_strip(pieces[i])]

\* faulty variant: an address already in the valid list is not appended again
validate_email_list_dedup(emails) ==
  IF emails = <<>> \/ str_strip(emails) = <<>>
  THEN [valid |-> <<>>, invalid |-> <<>>]
  ELSE LET entries == SelectSeq(StrippedPieces(emails, ","), NonEmpty)
           v == SelectSeq(entries, is_valid_email)
           once[i \in 0..Len(v)] ==
             IF i = 0 THEN <<>>
             ELSE IF v[i] \in Range(once[i - 1]) THEN once[i - 1]
             ELSE Append(once[i - 1], v[i])
       IN [valid   |-> once[Len(v)],
           invalid |-> SelectSeq(entries, NotValidEmail)]

\* validate_email_list(emails, ","): [valid, invalid]
validate_email_list(emails) ==
  IF emails = <<>> \/ str_strip(emails) = <<>>
  THEN [valid |-> <<>>, invalid |-> <<>>]
  ELSE LET entries == SelectSeq(StrippedPieces(emails, ","), NonEmpty)
       IN [valid   |-> SelectSeq(entries, is_valid_email),
           invalid |-> SelectSeq(entries, NotValidEmail)]

\* f"Invalid email(s): {', '.join(invalid)}"
InvalidEmailsMsg(invalid) ==
  [text |-> "Invalid email(s): ", detail |-> str_join(<<",", " ">>, invalid)]

\* faulty variant: nothing is returned beside an error
parse_email_input_strict(email_string) ==
  LET r == validate_email_list(email_string)
  IN [valid |-> IF r.invalid # <<>> THEN <<>> ELSE r.valid,
      error |-> IF r.invalid # <<>> THEN <<InvalidEmailsMsg(r.invalid)>> ELSE <<>>]

\* parse_email_input(s): the valid list and the error (<<>> is None)
parse_email_input(email_string) ==
  LET r == validate_email_list(email_string)
  IN [valid |-> r.valid,
      error |-> IF r.invalid # <<>> THEN <<InvalidEmailsMsg(r.invalid)>> ELSE <<>>]

sanitize_email_input(email_string) ==
  LET normalized ==
        str_replace(str_replace(str_replace(email_string, <<";">>, <<",">>),
                                <<"\n">>, <<",">>), <<"\t">>, <<",">>)
      parts == SelectSeq(StrippedPieces(normalized, ","), NonEmpty)
  IN str_join(<<",", " ">>, parts)

\* ------------------------------------------- email_service/message_builder.py
\* EmailRecipients.all_recipients()
all_recipients(r) == r.to \o r.cc \o r.bcc

\* EmailRecipients.has_recipients()
has_recipients(r) == r.to # <<>> \/ r.cc # <<>> \/ r.bcc # <<>>

CONTENT_TOKEN == <<"{","{","C","O","N","T","E","N","T","}","}">>

\* f"{{{{{key}}}}}"
PlaceholderToken(key) == <<"{","{">> \o key \o <<"}","}">>

\* faulty variant: the keys are taken last first (mappings of up to two keys)
ApplyPlaceholdersLastFirst(html, placeholders) ==
  IF placeholders = <<>> THEN html
  ELSE LET n     == Len(placeholders)
           first == str_replace(html, PlaceholderToken(placeholders[n][1]),
                                placeholders[n][2])
       IN IF n = 1 THEN first
          ELSE str_replace(first, PlaceholderToken(placeholders[1][1]),
                           placeholders[1][2])

RECURSIVE ApplyPlaceholders(_, _)
\* for key, value in placeholders.items(): html = html.replace(token, value)
ApplyPlaceholders(html, placeholders) ==
  IF placeholders = <<>> THEN html
  ELSE ApplyPlaceholders(
         str_replace(html, PlaceholderToken(placeholders[1][1]), placeholders[1][2]),
         Tail(placeholders))

\* faulty variant: the text is searched for {{CONTENT}} a second time
inject_content_twice(template, content, placeholders) ==
  ApplyPlaceholders(
    str_replace(str_replace(template, CONTENT_TOKEN, content), CONTENT_TOKEN, content),
    placeholders)

\* MessageBuilder.inject_content on the loaded template text
inject_content(template, content, placeholders) ==
  ApplyPlaceholders(str_replace(template, CONTENT_TOKEN, content), placeholders)

DefaultPlainText == "This email requires HTML support to view properly."

\* mimetypes.guess_type on the file names the model uses
MimeTable ==
  [f \in {"notes.txt", "logo.png", "report.pdf"} |->
     CASE f = "notes.txt" -> <<"text", "plain">>
       [] f = "logo.png"  -> <<"image", "png">>
       [] OTHER           -> <<"application", "pdf">>]

guess_mime_type(filename) ==
  IF filename \in DOMAIN MimeTable THEN MimeTable[filename]
  ELSE <<"application", "octet-stream">>

\* content_type.split("/", 1) of _attach_file, a content type being written
\* as the pieces between its first slash: the two targets of the unpacking
\* get their values only when there are two pieces
SplitsInTwo(attachment) ==
  attachment.content_type = <<>> \/ Len(attachment.content_type[1]) = 2

\* MessageBuilder._attach_file: the part appended for one attachment
attach_file(attachment) ==
  LET ct == IF attachment.content_type # <<>> THEN attachment.content_type[1]
            ELSE guess_mime_type(attachment.filename)
  IN [maintype    |-> ct[1],
      subtype     |-> ct[2],
      encoding    |-> IF ct[1] = "text" THEN "utf-8-replace"
                      ELSE "base64",
      disposition |-> <<"attachment", attachment.filename>>]

MIMEText(text, subtype) ==
  [maintype |-> "text", subtype |-> subtype, encoding |-> "utf-8",
   payload |-> text]

\* faulty variant: the BCC list gets a header of its own
BuildHeadersWithBcc(sender, recipients, subject) ==
  <<  <<"Subject", subject>>,
      <<"From", sender>>,
      <<"To", str_join(<<",", " ">>, recipients.to)>>,
      <<"Bcc", str_join(<<",", " ">>, recipients.bcc)>>  >>

\* the headers build() sets, in order; no Bcc header is written
BuildHeaders(sender, recipients, subject) ==
  <<  <<"Subject", subject>>,
      <<"From", sender>>,
      <<"To", str_join(<<",", " ">>, recipients.to)>>  >>
  \o (IF recipients.cc # <<>>
      THEN << <<"Cc", str_join(<<",", " ">>, recipients.cc)>> >>
      ELSE <<>>)

\* faulty variant: the HTML part is attached before the plain one
AlternativePartsHtmlFirst(plain, html) ==
  << MIMEText(html, "html"), MIMEText(plain, "plain") >>

\* the two body_container.attach calls of build
AlternativeParts(plain, html) ==
  << MIMEText(plain, "plain"), MIMEText(html, "html") >>

\* MessageBuilder.build; template is the text self.template returned;
\* attachments is <<>> for None, plain_text_fallback is <<>> for None
build(sender, recipients, subject, html_content, placeholders, attachments, plain_text_fallback, template) ==
  IF ~has_recipients(recipients)
  THEN [ok |-> FALSE, type |-> "MessageBuilderError",
        error |-> "At least one recipient required"]
  ELSE IF \E i \in 1..Len(attachments) : ~SplitsInTwo(attachments[i])
  THEN [ok |-> FALSE, type |-> "ValueError",
        error |-> "not enough values to unpack (expected 2, got 1)"]
  ELSE
    LET final_html == inject_content(template, html_content, placeholders)
        plain == IF plain_text_fallback = <<>> THEN DefaultPlainText
                 ELSE plain_text_fallback[1]
        alt   == AlternativeParts(plain, final_html)
        files == [i \in 1..Len(attachments) |-> attach_file(attachments[i])]
        hdrs  == BuildHeaders(sender, recipients, subject)
    IN [ok  |-> TRUE,
        msg |-> IF attachments # <<>>
                THEN [subtype |-> "mixed", headers |-> hdrs,
                      parts |-> << [subtype |-> "alternative", parts |-> alt] >>
                                \o files]
                ELSE [subtype |-> "alternative", headers |-> hdrs, parts |-> alt]]

\* --------------------------------------------------------------- messages
\* A formatted message: the fixed text of the f-string, the text a relay or
\* another exception put into it, the addresses listed in it, the number in
\* it, and the message nested in it (<<>> when there is none).
Msg(text, server, addrs, n, inner) ==
  [text |-> text, server |-> server, addrs |-> addrs, n |-> n, inner |-> inner]
M(text) == Msg(text, "", <<>>, 0, <<>>)

\* texts a relay or the platform puts into an exception; the second one
\* happens to hold the words the retry loop looks for
PlainReply == "relay reply"
PhraseReply == "relay reply: Authentication failed"
ServerTexts == {PlainReply, PhraseReply}

AuthGuidanceText ==
  "Authentication failed. Verify your email and App Password. Ensure 2FA is enabled and you're using an App Password, not your regular password."

\* faulty variant: the test for the words is lost
ContainsAuthFailedNever(m) == FALSE

\* "Authentication failed" in str(e)
ContainsAuthFailed(m) == m.text = AuthGuidanceText \/ m.server = PhraseReply

\* ---------------------------------------------- email_service/smtp_client.py
NoClient == [sender_email |-> <<>>, app_password |-> <<>>, connection |-> <<>>]

\* SMTPClient.__init__
SMTPClient(sender_email, app_password) ==
  [sender_email |-> sender_email, app_password |-> app_password,
   connection |-> <<>>]

Exc(type, msg) == [type |-> type, msg |-> msg]

\* What the relay and the platform do to one connect(): where it stops
\* ("ctor": smtplib.SMTP(...) itself, before self._connection is assigned;
\* "session": ehlo / starttls / login, after it) and with which exception.
ConnectOutcomes ==
  {[stage |-> "ok", exc |-> "none", text |-> PlainReply]}
  \cup {[stage |-> "session", exc |-> "SMTPAuthenticationError", text |-> PlainReply]}
  \cup [stage : {"ctor", "session"}, exc : {"SMTPException", "Exception"},
        text : {PlainReply}]
  \cup {[stage |-> "session", exc |-> "SMTPException", text |-> PhraseReply]}

\* SMTPClient.connect: the client afterwards and the exception raised
connect(client, conn, o) ==
  LET assigned == [client EXCEPT !.connection = <<conn>>]
      after    == IF o.stage = "ctor" THEN client ELSE assigned
  IN CASE o.exc = "none" ->
            [client |-> assigned, raised |-> <<>>]
       [] o.exc = "SMTPAuthenticationError" ->
            [client |-> after,
             raised |-> <<Exc("SMTPClientError", M(AuthGuidanceText))>>]
       [] o.exc = "SMTPException" ->
            [client |-> after,
             raised |-> <<Exc("SMTPClientError",
                              Msg("SMTP connection error: ", o.text, <<>>, 0, <<>>))>>]
       [] OTHER ->
            [client |-> after,
             raised |-> <<Exc("SMTPClientError",
                              Msg("Connection failed: ", o.text, <<>>, 0, <<>>))>>]

QuitOutcomes == {"ok", "SMTPException", "Exception"}

\* SMTPClient.disconnect: the client afterwards and the exception raised
disconnect(client, quit) ==
  IF client.connection = <<>> THEN [client |-> client, raised |-> <<>>]
  ELSE [client |-> [client EXCEPT !.connection = <<>>],
        raised |-> IF quit = "Exception"
                   THEN <<Exc("Exception", Msg("", PlainReply, <<>>, 0, <<>>))>>
                   ELSE <<>>]

RECURSIVE Dedup(_)
\* the addresses of a list in order of first occurrence
Dedup(s) ==
  IF s = <<>> THEN <<>>
  ELSE LET d == Dedup(SubSeq(s, 1, Len(s) - 1))
       IN IF s[Len(s)] \in Range(d) THEN d ELSE Append(d, s[Len(s)])

\* What the relay does to one sendmail(): accepts every recipient, refuses a
\* proper part of them (the returned dict), or raises.
SendOutcomes(recipients) ==
  {[kind |-> "accepted", who |-> {}, text |-> PlainReply]}
  \cup {[kind |-> "rejected", who |-> w, text |-> PlainReply] :
          w \in (SUBSET Range(recipients)) \ {{}, Range(recipients)}}
  \cup {[kind |-> "SMTPRecipientsRefused", who |-> Range(recipients),
         text |-> PlainReply]}
  \cup [kind : {"SMTPSenderRefused", "SMTPDataError", "SMTPException", "Exception"},
        who : {{}}, text : {PlainReply}]
  \cup [kind : {"SMTPSenderRefused", "Exception"}, who : {{}}, text : {PhraseReply}]

\* The try block of SMTPClient.send: the dict returned or the exception
\* raised once sendmail() has been called on the connection
transact(client, message, recipients, o) ==
  CASE o.kind = "accepted" ->
         [result |-> <<[success |-> TRUE, errors |-> {},
                        message |-> Msg("Email sent successfully to recipient(s)",
                                        "", <<>>, Len(recipients), <<>>)]>>,
          raised |-> <<>>, submitted |-> TRUE]
    [] o.kind = "rejected" ->
         [result |-> <<[success |-> FALSE, errors |-> o.who,
                        message |-> Msg("Some recipients rejected: ", "",
                                        SelectSeq(Dedup(recipients),
                                                  LAMBDA a : a \in o.who),
                                        0, <<>>)]>>,
          raised |-> <<>>, submitted |-> TRUE]
    [] o.kind = "SMTPRecipientsRefused" ->
         [result |-> <<[success |-> FALSE, errors |-> o.who,
                        message |-> M("All recipients were refused")]>>,
          raised |-> <<>>, submitted |-> TRUE]
    [] o.kind = "SMTPSenderRefused" ->
         [result |-> <<>>,
          raised |-> <<Exc("SMTPClientError",
                           Msg("Sender address refused: ", o.text, <<>>, 0, <<>>))>>,
          submitted |-> TRUE]
    [] o.kind = "SMTPDataError" ->
         [result |-> <<>>,
          raised |-> <<Exc("SMTPClientError",
                           Msg("Message data error: ", o.text, <<>>, 0, <<>>))>>,
          submitted |-> TRUE]
    [] o.kind = "SMTPException" ->
         [result |-> <<>>,
          raised |-> <<Exc("SMTPClientError",
                           Msg("Failed to send email: ", o.text, <<>>, 0, <<>>))>>,
          submitted |-> TRUE]
    [] OTHER ->
         [result |-> <<>>,
          raised |-> <<Exc("Exception", Msg("", o.text, <<>>, 0, <<>>))>>,
          submitted |-> TRUE]

NotConnectedText == "Not connected. Use context manager or call connect() first."

\* faulty variant: the connection is used without being tested
send_unchecked(client, message, recipients, o) == transact(client, message, recipients, o)

\* SMTPClient.send: the dict returned or the exception raised, and whether
\* the message was handed to the connection
send(client, message, recipients, o) ==
  IF client.connection = <<>>
  THEN [result |-> <<>>,
        raised |-> <<Exc("SMTPClientError", M(NotConnectedText))>>,
        submitted |-> FALSE]
  ELSE transact(client, message, recipients, o)

\* ------------------------------------------------------------------ app.py
\* the strings a call is given
Alice == <<"a","@","x",".","i","o">>
Bob   == <<"b","@","x",".","i","o">>
Carol == <<"c","@","x",".","i","o">>
Dave  == <<"d","@","x",".","i","o">>
BadEntry == <<"b","a","d">>
SenderEmail == <<"m","e","@","x",".","i","o">>
\* an app password pasted with a tab in it and a newline after it
PastedPassword ==
  <<"a","b","c","d","\t","e","f","g","h"," ","i","j","k","l"," ","m","n","o","p","\n">>
AppPassword ==
  <<"a","b","c","d"," ","e","f","g","h"," ","i","j","k","l"," ","m","n","o","p">>
SubjectLine == <<"H","i">>
BodyHtml == <<"<","b",">","y","o">>
BaseTemplate == <<"<","p",">">> \o CONTENT_TOKEN \o <<"{","{","F","}","}">>

ToInputs ==
  { <<>>, BadEntry, Alice, Alice \o <<",", " ">> \o BadEntry,
    Alice \o <<";">> \o Bob, Alice \o <<",">> \o Alice }
CcInputs == { <<>>, Carol, Alice }
BccInputs == { <<>>, Dave }
TemplateNames == {"base", "gone"}
AttachmentInputs == { <<>>, <<"notes.txt", "report.pdf">> }

ArgSets ==
  [sender_email : {SenderEmail}, app_password : {AppPassword},
   to_emails : ToInputs, cc_emails : CcInputs, bcc_emails : BccInputs,
   subject : {SubjectLine}, html_content : {BodyHtml},
   template_name : TemplateNames, attachments : AttachmentInputs,
   max_retries : 0..MaxRetriesArg]
  \cup
  [sender_email : {SenderEmail}, app_password : {PastedPassword},
   to_emails : {Alice}, cc_emails : {<<>>}, bcc_emails : {<<>>},
   subject : {SubjectLine}, html_content : {BodyHtml},
   template_name : {"base"}, attachments : {<<>>},
   max_retries : 0..MaxRetriesArg]

VARIABLES
  pc,              \* where the click / the call stands
  args,            \* the arguments of send_email_robust (the form's fields)
  via_form,        \* TRUE when the call was made by _panel_email_send
  form_errors,     \* the errors validate_form displayed
  recipients,      \* EmailRecipients
  message,         \* <<>> or <<the built message>>
  attempt,         \* the loop variable
  last_error,
  client,          \* the SMTPClient of the current attempt
  body,            \* what the body of the with statement produced
  envelope,        \* the recipient list last handed to SMTPClient.send
  result,          \* <<>> or <<the (success, message) returned>>
  template_files,  \* TEMPLATES_DIR: names of the template files that exist
  template_cache,  \* MessageBuilder._template_cache
  ops,             \* history: how often each operation has run
  seen,            \* history: what the loop saw of the attempts so far
  attempt_error,   \* history: the error the latest failed attempt produced
  faults,          \* history: what the network and the files refused, and
                   \* whether the QUIT of the attempt just made failed
  last_call,       \* a component called on its own: the call and what it gave
  batch            \* a send_batch / send_batch_async call in progress

vars == <<pc, args, via_form, form_errors, recipients, message, attempt,
          last_error, client, body, envelope, result, template_files,
          template_cache, ops, seen, attempt_error, faults, last_call, batch>>

\* one more run of an operation / one more attempt seen to end in a way
Ran(op) == [ops EXCEPT ![op] = @ + 1]
Saw(kind, how) == [seen EXCEPT ![kind] = @ + 1, !.last = how]

NoBody == [result |-> <<>>, raised |-> <<>>, submitted |-> FALSE]

\* no component has been called on its own, no batch is in progress
NoCall == [op |-> "none", n |-> 0]
NoBatch == [mode |-> "none"]
NoRecipients == [to |-> <<>>, cc |-> <<>>, bcc |-> <<>>]

Init ==
  /\ pc = "idle"
  /\ args \in ArgSets
  /\ via_form = FALSE
  /\ form_errors = <<>>
  /\ recipients = NoRecipients
  /\ message = <<>>
  /\ attempt = 0
  /\ last_error = M("")
  /\ client = NoClient
  /\ body = NoBody
  /\ envelope = <<>>
  /\ result = <<>>
  /\ template_files = [n \in {"base"} |-> BaseTemplate]
  /\ template_cache = [n \in {} |-> <<>>]
  /\ ops = [precheck |-> 0, connect |-> 0, sendmail |-> 0, disconnect |-> 0,
            sleep |-> 0]
  /\ seen = [ok |-> 0, failed |-> 0, auth |-> 0, last |-> "none"]
  /\ attempt_error = M("")
  /\ faults = [net_down |-> FALSE, file_unread |-> FALSE, template_gone |-> FALSE,
               quit_failed |-> FALSE]
  /\ last_call = NoCall
  /\ batch = NoBatch

\* get_template_path(template_name): does TEMPLATES_DIR hold the file
template_exists(files, template_name) == template_name \in DOMAIN files

\* faulty variant: the recipient check only asks for one valid address
validate_form_lenient(sender_email, app_password, to_emails, subject, template_name, files) ==
  (IF to_emails = <<>> \/ str_strip(to_emails) = <<>>
   THEN <<M("At least one recipient is required")>>
   ELSE IF parse_email_input(sanitize_email_input(to_emails)).valid = <<>>
   THEN <<M("No valid recipient email addresses")>>
   ELSE <<>>)
  \o
  (IF ~template_exists(files, template_name)
   THEN <<M("Template not found")>>
   ELSE <<>>)

\* validate_form: the list of errors (empty when the form is valid)
validate_form(sender_email, app_password, to_emails, subject, template_name, files) ==
  (IF sender_email = <<>>
   THEN <<M("Sender email not configured in sender_config.py")>>
   ELSE IF ~is_valid_email(sender_email)
   THEN <<M("Invalid sender email format")>>
   ELSE <<>>)
  \o
  (IF app_password = <<>>
   THEN <<M("App password not configured in sender_config.py")>>
   ELSE IF Len(str_replace(app_password, <<" ">>, <<>>)) < MinPasswordLen
   THEN <<M("App password appears invalid (should be 16 characters)")>>
   ELSE <<>>)
  \o
  (IF to_emails = <<>> \/ str_strip(to_emails) = <<>>
   THEN <<M("At least one recipient is required")>>
   ELSE LET p == parse_email_input(sanitize_email_input(to_emails))
        IN IF p.error # <<>> THEN <<p.error[1]>>
           ELSE IF p.valid = <<>>
           THEN <<M("No valid recipient email addresses")>>
           ELSE <<>>)
  \o
  (IF subject = <<>> \/ str_strip(subject) = <<>>
   THEN <<M("Subject is required")>>
   ELSE IF Len(subject) > MaxSubjectLen
   THEN <<M("Subject too long (max 998 characters)")>>
   ELSE <<>>)
  \o
  (IF ~template_exists(files, template_name)
   THEN <<M("Template not found")>>
   ELSE <<>>)

\* the (success, message) pair send_email_robust returns
Ret(success, msg) == [success |-> success, message |-> msg]

\* faulty variant: every whitespace character is removed
clean_password_no_whitespace(app_password) ==
  SelectSeq(app_password, LAMBDA c : c \notin Whitespace)

\* app_password.replace(" ", "")
clean_password(app_password) == str_replace(app_password, <<" ">>, <<>>)

\* what the file system does when an attachment is opened
FileStates == {"ok", "missing", "denied", "ioerror"}

\* faulty variant: a file that cannot be read is skipped
ReadAttachmentsSkipping(files, st) == <<>>

\* the attachment loop: <<>> when every file was read, or <<the error>> of the
\* first file that was not
ReadAttachments(files, st) ==
  LET bad == {i \in 1..Len(files) : st[files[i]] # "ok"}
  IN IF bad = {} THEN <<>>
     ELSE LET i == CHOOSE k \in bad : \A j \in bad : k <= j
              f == files[i]
          IN CASE st[f] = "missing" -> <<Msg("Attachment not found: ", f, <<>>, 0, <<>>)>>
               [] st[f] = "denied"  -> <<Msg("Cannot read attachment: ", f, <<>>, 0, <<>>)>>
               [] OTHER             -> <<Msg("Error reading : ", f, <<>>, 0, <<>>)>>

\* Attachment(filename=file_path.name, content=content) for each file
AttachmentObjects(files) ==
  [i \in 1..Len(files) |-> [filename |-> files[i], content_type |-> <<>>]]

\* The second try block of send_email_robust: the message, or the failure
\* returned. vanished: the template file is removed after get_template_path
\* saw it and before MessageBuilder.template reads it.
assemble(a, rcpts, files, cache, st, vanished) ==
  IF ~template_exists(files, a.template_name)
  THEN [ok |-> FALSE, files |-> files, cache |-> cache,
        error |-> Msg("Failed to build message: ", "Template not found", <<>>, 0, <<>>)]
  ELSE IF ReadAttachments(a.attachments, st) # <<>>
  THEN [ok |-> FALSE, files |-> files, cache |-> cache,
        error |-> ReadAttachments(a.attachments, st)[1]]
  ELSE IF a.template_name \notin DOMAIN cache /\ vanished
  THEN [ok |-> FALSE, cache |-> cache,
        files |-> [n \in DOMAIN files \ {a.template_name} |-> files[n]],
        error |-> Msg("Message build error: ", "Template not found", <<>>, 0, <<>>)]
  ELSE
    LET text == IF a.template_name \in DOMAIN cache THEN cache[a.template_name]
                ELSE files[a.template_name]
        b == build(a.sender_email, rcpts, a.subject, a.html_content, <<>>,
                   AttachmentObjects(a.attachments), <<>>, text)
        cache2 == [n \in DOMAIN cache \cup {a.template_name} |->
                     IF n \in DOMAIN cache THEN cache[n] ELSE text]
    IN IF b.ok
       THEN [ok |-> TRUE, files |-> files, cache |-> cache2, msg |-> b.msg,
             error |-> M("")]
       ELSE [ok |-> FALSE, files |-> files, cache |-> cache2,
             error |-> Msg(IF b.type = "MessageBuilderError"
                           THEN "Message build error: "
                           ELSE "Failed to build message: ",
                           b.error, <<>>, 0, <<>>)]

\* faulty variant: the connectivity probe is made before the form is validated
PanelSendProbesFirst ==
  /\ pc = "idle"
  /\ via_form' = TRUE
  /\ ops' = Ran("precheck")
  /\ form_errors' = validate_form(args.sender_email, args.app_password,
                                  args.to_emails, args.subject,
                                  args.template_name, template_files)
  /\ pc' = IF form_errors' # <<>> THEN "rejected" ELSE "parse"
  /\ UNCHANGED <<last_call, batch>>
  /\ UNCHANGED <<args, recipients, message, attempt, last_error, client, body,
                 envelope, result, template_files, template_cache, seen,
                 attempt_error, faults>>

\* _panel_email_send: the Send button runs validate_form, shows its errors,
\* and calls send_email_robust only when there are none
PanelSend ==
  /\ pc = "idle"
  /\ via_form' = TRUE
  /\ form_errors' = validate_form(args.sender_email, args.app_password,
                                  args.to_emails, args.subject,
                                  args.template_name, template_files)
  /\ pc' = IF form_errors' # <<>> THEN "rejected" ELSE "precheck"
  /\ UNCHANGED <<last_call, batch>>
  /\ UNCHANGED <<args, recipients, message, attempt, last_error, client, body,
                 envelope, result, template_files, template_cache, ops, seen,
                 attempt_error, faults>>

\* send_email_robust called by any other caller, with the same arguments
DirectCall ==
  /\ pc = "idle"
  /\ pc' = "precheck"
  /\ UNCHANGED <<last_call, batch>>
  /\ UNCHANGED <<args, via_form, form_errors, recipients, message, attempt,
                 last_error, client, body, envelope, result, template_files,
                 template_cache, ops, seen, attempt_error, faults>>

NetworkErrorText ==
  "Network error: Cannot connect to Gmail SMTP server. Check your internet connection."

\* faulty variant: the outcome of the connect is ignored
check_network_connectivity_ignored(reachable) == TRUE

\* check_network_connectivity(): True when the TCP connect succeeds, False
\* when it raises socket.timeout, socket.error or OSError
check_network_connectivity(reachable) == reachable

\* check_network_connectivity() and the early return on its failure
CheckNetwork ==
  /\ pc = "precheck"
  /\ ops' = Ran("precheck")
  /\ \E reachable \in BOOLEAN :
       /\ faults' = [faults EXCEPT !.net_down = ~reachable]
       /\ IF check_network_connectivity(reachable)
          THEN pc' = "parse" /\ result' = result
          ELSE /\ pc' = "done"
               /\ result' = <<Ret(FALSE, M(NetworkErrorText))>>
  /\ UNCHANGED <<last_call, batch>>
  /\ UNCHANGED <<args, via_form, form_errors, recipients, message, attempt,
                 last_error, client, body, envelope, template_files,
                 template_cache, seen, attempt_error>>

\* The sockets the connectivity probes left behind: create_connection's
\* socket is bound to no name and close() is never called on it, so the
\* program leaves it open and only the collector of the interpreter can
\* close it
ProbeSockets == IF ops.precheck > 0 /\ ~faults.net_down THEN {"probe"} ELSE {}

\* the first try block: the three lists, and the early return on an empty To
ResolveRecipients ==
  /\ pc = "parse"
  /\ LET to_list  == parse_email_input(sanitize_email_input(args.to_emails)).valid
         cc_list  == IF args.cc_emails # <<>>
                     THEN parse_email_input(sanitize_email_input(args.cc_emails)).valid
                     ELSE <<>>
         bcc_list == IF args.bcc_emails # <<>>
                     THEN parse_email_input(sanitize_email_input(args.bcc_emails)).valid
                     ELSE <<>>
     IN IF to_list = <<>>
        THEN /\ pc' = "done"
             /\ result' = <<Ret(FALSE, M("No valid recipients found"))>>
             /\ recipients' = recipients
        ELSE /\ pc' = "build"
             /\ result' = result
             /\ recipients' = [to |-> to_list, cc |-> cc_list, bcc |-> bcc_list]
  /\ UNCHANGED <<last_call, batch>>
  /\ UNCHANGED <<args, via_form, form_errors, message, attempt, last_error,
                 client, body, envelope, template_files, template_cache, ops,
                 seen, attempt_error, faults>>

\* the second try block, then last_error = "" before the loop
AssembleMessage ==
  /\ pc = "build"
  /\ \E st \in [Range(args.attachments) -> FileStates], vanished \in BOOLEAN :
       LET r == assemble(args, recipients, template_files, template_cache, st,
                         vanished)
       IN /\ template_files' = r.files
          /\ template_cache' = r.cache
          /\ faults' = [faults EXCEPT
                          !.file_unread =
                             /\ template_exists(template_files, args.template_name)
                             /\ \E f \in Range(args.attachments) : st[f] # "ok",
                          !.template_gone = r.files # template_files]
          /\ IF r.ok
             THEN /\ message' = <<r.msg>>
                  /\ result' = result
                  /\ last_error' = M("")
                  /\ attempt' = 0
                  /\ pc' = "connect"
             ELSE /\ message' = message
                  /\ result' = <<Ret(FALSE, r.error)>>
                  /\ last_error' = last_error
                  /\ attempt' = attempt
                  /\ pc' = "done"
  /\ UNCHANGED <<last_call, batch>>
  /\ UNCHANGED <<args, via_form, form_errors, recipients, client, body,
                 envelope, ops, seen, attempt_error>>

\* the error message returned after the loop
FailedAfterMsg(max_retries, err) ==
  Msg("Failed after attempts: ", "", <<>>, max_retries + 1, <<err>>)

\* faulty variant: an address is counted once
recipient_count_distinct(rc) == Cardinality(Range(all_recipients(rc)))

\* recipient_count = len(recipients.all_recipients())
recipient_count(rc) == Len(all_recipients(rc))

\* faulty variant: the range is one too long
in_range_one_more(k, max_retries) == k < max_retries + 2

\* for attempt in range(max_retries + 1)
in_range(k, max_retries) == k < max_retries + 1

\* faulty variant: the call sleeps after its final attempt as well
sleep_after_every_failure(k, max_retries) == k <= max_retries

\* if attempt < max_retries: time.sleep(1)
sleep_before_retry(k, max_retries) == k < max_retries

\* The loop goes on to its next iteration, or is left and the call returns
\* the failure message built from last_error.
LoopNext(err) ==
  IF in_range(attempt + 1, args.max_retries)
  THEN attempt' = attempt + 1 /\ pc' = "connect" /\ result' = result
  ELSE /\ attempt' = attempt
       /\ pc' = "done"
       /\ result' = <<Ret(FALSE, FailedAfterMsg(args.max_retries, err))>>

\* faulty variant: the first error is kept, later ones are dropped
EndOfAttemptKeepsFirst(err) ==
  LET kept == IF last_error = M("") THEN err ELSE last_error
  IN /\ last_error' = kept
     /\ IF sleep_before_retry(attempt, args.max_retries)
        THEN pc' = "sleep" /\ attempt' = attempt /\ result' = result
        ELSE LoopNext(kept)

\* The end of a failed attempt that is not an authentication failure: the
\* error is recorded in last_error, then the back-off when another attempt
\* follows
EndOfAttempt(err) ==
  /\ last_error' = err
  /\ IF sleep_before_retry(attempt, args.max_retries)
     THEN pc' = "sleep" /\ attempt' = attempt /\ result' = result
     ELSE LoopNext(err)

\* except SMTPClientError as e
HandleSMTPClientError(e) ==
  IF ContainsAuthFailed(e.msg)
  THEN /\ last_error' = e.msg
       /\ seen' = Saw("auth", "auth")
       /\ attempt' = attempt
       /\ pc' = "done"
       /\ result' = <<Ret(FALSE, e.msg)>>
  ELSE /\ seen' = Saw("failed", "error")
       /\ EndOfAttempt(e.msg)

\* except Exception as e
HandleException(e) ==
  /\ seen' = Saw("failed", "exception")
  /\ EndOfAttempt(e.msg)

\* faulty variant: only SMTPClientError is caught: any other exception leaves the call
HandleRaisedSMTPOnly(e) ==
  IF e.type = "SMTPClientError" THEN HandleSMTPClientError(e)
  ELSE /\ seen' = Saw("failed", "exception")
       /\ pc' = "crashed"
       /\ UNCHANGED <<last_error, attempt, result>>

\* the except clauses of the loop, by the type of what was raised
HandleRaised(e) ==
  IF e.type = "SMTPClientError" THEN HandleSMTPClientError(e)
  ELSE HandleException(e)

\* with SMTPClient(sender_email, clean_password) as client: __enter__ runs
\* connect(); when it raises, __exit__ is not run and the loop's except
\* clauses take over
Connect ==
  /\ pc = "connect"
  /\ ops' = Ran("connect")
  /\ body' = NoBody
  /\ \E o \in ConnectOutcomes :
       LET r == connect(SMTPClient(args.sender_email,
                                   clean_password(args.app_password)),
                        attempt + 1, o)
       IN /\ client' = r.client
          /\ IF r.raised = <<>>
             THEN /\ pc' = "send"
                  /\ UNCHANGED <<last_error, result, seen, attempt_error,
                                 attempt>>
             ELSE /\ attempt_error' = r.raised[1].msg
                  /\ HandleRaised(r.raised[1])
  /\ faults' = [faults EXCEPT !.quit_failed = FALSE]
  /\ UNCHANGED <<last_call, batch>>
  /\ UNCHANGED <<args, via_form, form_errors, recipients, message, envelope,
                 template_files, template_cache>>

\* result = client.send(message, recipients.all_recipients())
SendBody ==
  /\ pc = "send"
  /\ ops' = Ran("sendmail")
  /\ envelope' = all_recipients(recipients)
  /\ \E o \in SendOutcomes(all_recipients(recipients)) :
       body' = send(client, message[1], all_recipients(recipients), o)
  /\ pc' = "exit"
  /\ UNCHANGED <<last_call, batch>>
  /\ UNCHANGED <<args, via_form, form_errors, recipients, message, attempt,
                 last_error, client, result, template_files, template_cache,
                 seen, attempt_error, faults>>

\* Leaving the with statement: __exit__ runs disconnect(); an exception it
\* raises replaces what the body produced; then the code after the with
\* statement, or the except clause for what was raised
ExitWith ==
  /\ pc = "exit"
  /\ ops' = Ran("disconnect")
  /\ \E q \in QuitOutcomes :
       LET d == disconnect(client, q)
           raised == IF d.raised # <<>> THEN d.raised ELSE body.raised
       IN /\ client' = d.client
          /\ body' = NoBody
          /\ faults' = [faults EXCEPT !.quit_failed = (q # "ok")]
          /\ IF raised # <<>>
             THEN /\ attempt_error' = raised[1].msg
                  /\ HandleRaised(raised[1])
             ELSE IF body.result[1].success
             THEN /\ seen' = Saw("ok", "ok")
                  /\ pc' = "done"
                  /\ result' = <<Ret(TRUE, Msg("Email sent successfully to recipient(s)",
                                               "", <<>>,
                                               recipient_count(recipients), <<>>))>>
                  /\ UNCHANGED <<last_error, attempt_error, attempt>>
             ELSE /\ seen' = Saw("failed", "soft")
                  /\ attempt_error' = body.result[1].message
                  /\ EndOfAttempt(body.result[1].message)
  /\ UNCHANGED <<last_call, batch>>
  /\ UNCHANGED <<args, via_form, form_errors, recipients, message, envelope,
                 template_files, template_cache>>

\* time.sleep(1), then the next iteration of the loop
Sleep ==
  /\ pc = "sleep"
  /\ ops' = Ran("sleep")
  /\ LoopNext(last_error)
  /\ faults' = [faults EXCEPT !.quit_failed = FALSE]
  /\ UNCHANGED <<last_call, batch>>
  /\ UNCHANGED <<args, via_form, form_errors, recipients, message, last_error,
                 client, body, envelope, template_files, template_cache, seen,
                 attempt_error>>

Next ==
  \/ PanelSend
  \/ DirectCall
  \/ CheckNetwork
  \/ ResolveRecipients
  \/ AssembleMessage
  \/ Connect
  \/ SendBody
  \/ ExitWith
  \/ Sleep

Spec == Init /\ [][Next]_vars

\* ------------------------------------------- components called on their own
\* The variables of send_email_robust while a component is exercised without
\* it: no call of it is under way.
orchestrator_vars ==
  <<pc, args, via_form, form_errors, recipients, message, attempt, last_error,
    body, envelope, result, template_files, template_cache, ops, seen,
    attempt_error, faults>>

SampleArgs ==
  [sender_email |-> SenderEmail, app_password |-> AppPassword,
   to_emails |-> Alice, cc_emails |-> <<>>, bcc_emails |-> <<>>,
   subject |-> SubjectLine, html_content |-> BodyHtml, template_name |-> "base",
   attachments |-> <<>>, max_retries |-> 0]

Standby ==
  /\ pc = "idle"
  /\ args = SampleArgs
  /\ via_form = FALSE
  /\ form_errors = <<>>
  /\ recipients = NoRecipients
  /\ message = <<>>
  /\ attempt = 0
  /\ last_error = M("")
  /\ body = NoBody
  /\ envelope = <<>>
  /\ result = <<>>
  /\ template_files = [n \in {"base"} |-> BaseTemplate]
  /\ template_cache = [n \in {} |-> <<>>]
  /\ ops = [precheck |-> 0, connect |-> 0, sendmail |-> 0, disconnect |-> 0,
            sleep |-> 0]
  /\ seen = [ok |-> 0, failed |-> 0, auth |-> 0, last |-> "none"]
  /\ attempt_error = M("")
  /\ faults = [net_down |-> FALSE, file_unread |-> FALSE, template_gone |-> FALSE,
               quit_failed |-> FALSE]

\* ------------------------------------------------ SMTPClient used directly
\* A caller holds one SMTPClient and calls connect(), send() and disconnect()
\* in any order. last_call holds the latest call: its name, the calls made so
\* far with whether each returned normally (trail), the connection handle
\* before the call, what the relay did (outcome), and what the call gave.
SampleRecipients == [to |-> <<Alice>>, cc |-> <<>>, bcc |-> <<Dave>>]

SampleMessage ==
  build(SenderEmail, SampleRecipients, SubjectLine, BodyHtml, <<>>, <<>>, <<>>, BaseTemplate).msg

Called(op, before, outcome, r) ==
  [op |-> op,
   n |-> last_call.n + 1,
   trail |-> (IF last_call.n = 0 THEN <<>> ELSE last_call.trail)
               \o << <<op, r.raised = <<>> >> >>,
   before |-> before, outcome |-> outcome,
   result |-> r.result, raised |-> r.raised, submitted |-> r.submitted]

ClientInit ==
  /\ Standby
  /\ client = SMTPClient(SenderEmail, clean_password(AppPassword))
  /\ last_call = NoCall
  /\ batch = NoBatch

\* client.connect()
ClientConnect ==
  /\ last_call.n < MaxCalls
  /\ \E o \in ConnectOutcomes :
       LET r == connect(client, last_call.n + 1, o)
       IN /\ client' = r.client
          /\ last_call' = Called("connect", client.connection, o.exc,
                                 [result |-> <<>>, raised |-> r.raised,
                                  submitted |-> FALSE])
  /\ UNCHANGED <<orchestrator_vars, batch>>

\* client.send(message, recipients)
ClientSend ==
  /\ last_call.n < MaxCalls
  /\ \E o \in SendOutcomes(all_recipients(SampleRecipients)) :
       LET r == send(client, SampleMessage, all_recipients(SampleRecipients), o)
       IN last_call' = Called("send", client.connection,
                              IF r.submitted THEN o.kind ELSE "none", r)
  /\ UNCHANGED <<orchestrator_vars, client, batch>>

\* client.disconnect()
ClientDisconnect ==
  /\ last_call.n < MaxCalls
  /\ \E q \in QuitOutcomes :
       LET d == disconnect(client, q)
       IN /\ client' = d.client
          /\ last_call' = Called("disconnect", client.connection,
                                 IF client.connection = <<>> THEN "none" ELSE q,
                                 [result |-> <<>>, raised |-> d.raised,
                                  submitted |-> FALSE])
  /\ UNCHANGED <<orchestrator_vars, batch>>

ClientNext ==
  \/ ClientConnect
  \/ ClientSend
  \/ ClientDisconnect

ClientSpec == ClientInit /\ [][ClientNext]_vars

\* ------------------------------------------------------------ batch sending
\* recipient dicts handed to a batch; the last one has no recipient at all
Descriptors ==
  { [to |-> <<Alice>>, cc |-> <<>>, bcc |-> <<>>],
    [to |-> <<Bob>>, cc |-> <<>>, bcc |-> <<Dave>>],
    NoRecipients }

\* what the relay does to one send of a batch; the wording of its reply
\* plays no part here
BatchOutcomes(rcpts) == {o \in SendOutcomes(rcpts) : o.text = PlainReply}

DescriptorLists == UNION {[1..n -> Descriptors] : n \in 0..MaxBatch}

\* A message_builder_func: takes a recipient dict and returns (message,
\* recipients), or raises what MessageBuilder.build raises
message_builder_func(recipient_data) ==
  LET b == build(SenderEmail, recipient_data, SubjectLine, BodyHtml,
                 <<>>, <<>>, <<>>, BaseTemplate)
  IN IF b.ok
     THEN [raised |-> <<>>, message |-> b.msg,
           all_recipients |-> all_recipients(recipient_data)]
     ELSE [raised |-> <<Exc(b.type, M(b.error))>>]

\* The record one descriptor leaves in the results: the dict send returned
\* with result["recipient_data"] set, or the dict of the except clause
BatchRecord(r, recipient_data) ==
  IF r.raised # <<>>
  THEN [success |-> FALSE, errors |-> {}, message |-> r.raised[1].msg,
        recipient_data |-> recipient_data]
  ELSE [success |-> r.result[1].success, errors |-> r.result[1].errors,
        message |-> r.result[1].message, recipient_data |-> recipient_data]

\* A batch call: its descriptors; per descriptor where its send stands
\* ("new", "queued" in the executor, "sending" in a worker thread, "done"),
\* the connection its send runs on, how many times send() was called for it
\* and what the relay did; the results list of send_batch, the values of the
\* send_one tasks of send_batch_async, and the list returned
NewBatch(mode, descriptors) ==
  [mode |-> mode, descriptors |-> descriptors,
   status  |-> [i \in 1..Len(descriptors) |-> "new"],
   conn    |-> [i \in 1..Len(descriptors) |-> <<>>],
   calls   |-> [i \in 1..Len(descriptors) |-> 0],
   outcome |-> [i \in 1..Len(descriptors) |-> "none"],
   results |-> <<>>,
   values  |-> [i \in 1..Len(descriptors) |-> <<>>],
   returned |-> <<>>]

BatchInit ==
  /\ Standby
  /\ last_call = NoCall
  /\ \E connected \in BOOLEAN :
       client = [SMTPClient(SenderEmail, clean_password(AppPassword))
                   EXCEPT !.connection = IF connected THEN <<1>> ELSE <<>>]
  /\ \E mode \in {"sync", "async"}, descriptors \in DescriptorLists :
       batch = NewBatch(mode, descriptors)

\* faulty variant: an exception ends the loop with what was collected
SyncSendAborting ==
  /\ batch.mode = "sync" /\ batch.returned = <<>>
  /\ Len(batch.results) < Len(batch.descriptors)
  /\ LET i == Len(batch.results) + 1
         recipient_data == batch.descriptors[i]
         b == message_builder_func(recipient_data)
     IN IF b.raised # <<>>
        THEN batch' = [batch EXCEPT !.returned = <<batch.results>>,
                                    !.status[i] = "done"]
        ELSE \E o \in BatchOutcomes(b.all_recipients) :
               LET r == send(client, b.message, b.all_recipients, o)
               IN batch' = [batch EXCEPT
                              !.results = IF r.raised # <<>> THEN @
                                          ELSE Append(@, BatchRecord(r, recipient_data)),
                              !.returned = IF r.raised # <<>> THEN <<batch.results>>
                                           ELSE @,
                              !.status[i] = "done",
                              !.conn[i] = client.connection,
                              !.calls[i] = @ + 1,
                              !.outcome[i] = IF r.submitted THEN o.kind ELSE "none"]
  /\ UNCHANGED <<orchestrator_vars, client, last_call>>

\* send_batch: one pass of the for loop
SyncSend ==
  /\ batch.mode = "sync" /\ batch.returned = <<>>
  /\ Len(batch.results) < Len(batch.descriptors)
  /\ LET i == Len(batch.results) + 1
         recipient_data == batch.descriptors[i]
         b == message_builder_func(recipient_data)
     IN IF b.raised # <<>>
        THEN batch' = [batch EXCEPT
                         !.results = Append(@, BatchRecord(
                                       [result |-> <<>>, raised |-> b.raised],
                                       recipient_data)),
                         !.status[i] = "done"]
        ELSE \E o \in BatchOutcomes(b.all_recipients) :
               LET r == send(client, b.message, b.all_recipients, o)
               IN batch' = [batch EXCEPT
                              !.results = Append(@, BatchRecord(r, recipient_data)),
                              !.status[i] = "done",
                              !.conn[i] = client.connection,
                              !.calls[i] = @ + 1,
                              !.outcome[i] = IF r.submitted THEN o.kind ELSE "none"]
  /\ UNCHANGED <<orchestrator_vars, client, last_call>>

\* send_batch: return results, once the loop is over
SyncReturn ==
  /\ batch.mode = "sync" /\ batch.returned = <<>>
  /\ Len(batch.results) = Len(batch.descriptors)
  /\ batch' = [batch EXCEPT !.returned = <<batch.results>>]
  /\ UNCHANGED <<orchestrator_vars, client, last_call>>

\* send_batch_async: a send_one task runs up to its await, in the order the
\* tasks were created: the builder is called on the event loop; what it
\* raises ends the task with the dict of the except clause, otherwise
\* send_async hands self.send to the executor
TaskStart ==
  /\ batch.mode = "async" /\ batch.returned = <<>>
  /\ \E i \in 1..Len(batch.descriptors) :
       /\ batch.status[i] = "new"
       /\ \A j \in 1..(i - 1) : batch.status[j] # "new"
       /\ LET recipient_data == batch.descriptors[i]
              b == message_builder_func(recipient_data)
          IN IF b.raised # <<>>
             THEN batch' = [batch EXCEPT
                              !.status[i] = "done",
                              !.values[i] = <<BatchRecord(
                                              [result |-> <<>>, raised |-> b.raised],
                                              recipient_data)>>]
             ELSE batch' = [batch EXCEPT !.status[i] = "queued"]
  /\ UNCHANGED <<orchestrator_vars, client, last_call>>

\* A thread of the executor that is free takes the oldest queued call and
\* enters self.send(message, recipients), on the connection of the client
WorkerBegin ==
  /\ batch.mode = "async"
  /\ Cardinality({j \in 1..Len(batch.descriptors) : batch.status[j] = "sending"})
       < MaxWorkers
  /\ \E i \in 1..Len(batch.descriptors) :
       /\ batch.status[i] = "queued"
       /\ \A j \in 1..(i - 1) : batch.status[j] # "queued"
       /\ batch' = [batch EXCEPT !.status[i] = "sending",
                                 !.conn[i] = client.connection,
                                 !.calls[i] = @ + 1]
  /\ UNCHANGED <<orchestrator_vars, client, last_call>>

\* self.send leaves, in its worker thread, and send_one goes on with what
\* it returned or raised
WorkerEnd ==
  /\ batch.mode = "async"
  /\ \E i \in 1..Len(batch.descriptors) :
       /\ batch.status[i] = "sending"
       /\ LET recipient_data == batch.descriptors[i]
              b == message_builder_func(recipient_data)
          IN \E o \in BatchOutcomes(b.all_recipients) :
               LET r == send(client, b.message, b.all_recipients, o)
               IN batch' = [batch EXCEPT
                              !.status[i] = "done",
                              !.values[i] = <<BatchRecord(r, recipient_data)>>,
                              !.outcome[i] = IF r.submitted THEN o.kind ELSE "none"]
  /\ UNCHANGED <<orchestrator_vars, client, last_call>>

\* asyncio.gather(*tasks): the values of the tasks, in the order of the
\* tasks, once every task has ended
Gather ==
  /\ batch.mode = "async" /\ batch.returned = <<>>
  /\ \A i \in 1..Len(batch.descriptors) : batch.status[i] = "done"
  /\ batch' = [batch EXCEPT
                 !.returned = <<[i \in 1..Len(batch.descriptors) |-> batch.values[i][1]]>>]
  /\ UNCHANGED <<orchestrator_vars, client, last_call>>

BatchNext ==
  \/ SyncSend
  \/ SyncReturn
  \/ TaskStart
  \/ WorkerBegin
  \/ WorkerEnd
  \/ Gather

BatchSpec == BatchInit /\ [][BatchNext]_vars

\* ------------------------------------------------- MessageBuilder.build alone
\* Attachment objects: content types left to the file name, given, and
\* given without a slash
SampleAttachments ==
  { [filename |-> "notes.txt", content_type |-> <<>>],
    [filename |-> "logo.png", content_type |-> << <<"image", "png">> >>],
    [filename |-> "report.pdf", content_type |-> <<>>],
    [filename |-> "data.bin", content_type |-> << <<"binary">> >>] }

AttachmentLists == UNION {[1..n -> SampleAttachments] : n \in 0..MaxAttachments}

RecipientSets ==
  [to : {<<>>, <<Alice>>, <<Alice, Bob>>}, cc : {<<>>, <<Carol>>},
   bcc : {<<>>, <<Dave>>}]

PlainFallbacks == {<<>>, <<"">>, <<"plain words">>}

BuilderInit ==
  /\ Standby
  /\ client = NoClient
  /\ last_call = NoCall
  /\ batch = NoBatch

\* builder.build(sender, recipients, subject, html_content,
\*               attachments=..., plain_text_fallback=...)
BuildCall ==
  /\ last_call.op = "none"
  /\ \E rc \in RecipientSets, atts \in AttachmentLists, fb \in PlainFallbacks :
       last_call' =
         [op |-> "build", n |-> last_call.n + 1, recipients |-> rc,
          attachments |-> atts, plain_text_fallback |-> fb,
          out |-> build(SenderEmail, rc, SubjectLine, BodyHtml, <<>>, atts, fb,
                        BaseTemplate)]
  /\ UNCHANGED <<orchestrator_vars, client, batch>>

\* placeholder keys: F and G are used as keys of a mapping, H never is
KeyF == <<"F">>
KeyG == <<"G">>
KeyH == <<"H">>

\* what stands before and after {{CONTENT}} in a template
TemplatePieces ==
  { <<>>, <<"<", "p", ">">>, PlaceholderToken(KeyF), PlaceholderToken(KeyH) }

\* bodies: plain, the literal {{CONTENT}} alone and inside a text, and the
\* tokens of a key and of a name that is no key
Bodies ==
  { <<"y", "o">>, CONTENT_TOKEN, <<"a">> \o CONTENT_TOKEN \o <<"b">>,
    PlaceholderToken(KeyG), PlaceholderToken(KeyH) }

\* placeholder dicts, as the pairs of items() in insertion order; <<>> is
\* None; in the last two the value of F holds the token of G
Mappings ==
  { <<>>,
    << <<KeyF, <<"v">>>> >>,
    << <<KeyG, <<"w">>>> >>,
    << <<KeyF, PlaceholderToken(KeyG)>>, <<KeyG, <<"w">>>> >>,
    << <<KeyG, <<"w">>>>, <<KeyF, PlaceholderToken(KeyG)>> >> }

\* builder.inject_content(content, placeholders) on a template that holds
\* {{CONTENT}} once
InjectCall ==
  /\ last_call.op = "none"
  /\ \E pre \in TemplatePieces, post \in TemplatePieces, content \in Bodies,
        placeholders \in Mappings :
       last_call' =
         [op |-> "inject", n |-> last_call.n + 1, pre |-> pre, post |-> post,
          content |-> content, placeholders |-> placeholders,
          out |-> inject_content(pre \o CONTENT_TOKEN \o post, content, placeholders)]
  /\ UNCHANGED <<orchestrator_vars, client, batch>>

BuilderNext ==
  \/ BuildCall
  \/ InjectCall

BuilderSpec == BuilderInit /\ [][BuilderNext]_vars

\* ------------------------------------------------- the recipient parser alone
\* what a user types between two separators: addresses, one of them padded,
\* a word that is no address, and blanks
TypedEntries == { Alice, <<" ">> \o Bob \o <<" ", "\r">>, BadEntry, <<" ">> }

Separators == {",", ";", "\n", "\t"}

RECURSIVE Typed(_, _)
\* the text typed: the entries with a separator between two of them
Typed(entries, seps) ==
  IF entries = <<>> THEN <<>>
  ELSE IF Len(entries) = 1 THEN entries[1]
  ELSE entries[1] \o <<seps[1]>> \o Typed(Tail(entries), Tail(seps))

TypedInputs ==
  {<<>>} \cup
  UNION { {Typed(es, ss) : es \in [1..n -> TypedEntries],
                           ss \in [1..(n - 1) -> Separators]} : n \in 1..MaxEntries }

ParserInit ==
  /\ Standby
  /\ client = NoClient
  /\ last_call = NoCall
  /\ batch = NoBatch

\* parse_email_input(sanitize_email_input(email_string))
ParseCall ==
  /\ last_call.op = "none"
  /\ \E email_string \in TypedInputs :
       last_call' =
         [op |-> "parse", n |-> last_call.n + 1, email_string |-> email_string,
          out |-> parse_email_input(sanitize_email_input(email_string))]
  /\ UNCHANGED <<orchestrator_vars, client, batch>>

\* n times the character ch
Rep(ch, n) == [i \in 1..n |-> ch]

\* Strings handed to is_valid_email: local parts (none, short, dotted, of 64
\* and of 65 characters, with a blank inside), no, one or two @, domains
\* (well-formed, too short, without a dot, with a hyphen at the edge of a
\* label, with a label of 64 characters, and of the lengths that bring the
\* whole to 254 and to 255 characters), with and without blanks around
CandidateAddresses ==
  LET locals  == { <<>>, <<"a">>, <<"a", ".", "b">>, <<"a", " ", "b">>,
                   Rep("a", MaxLocalLen), Rep("a", MaxLocalLen + 1) }
      mids    == { <<>>, <<"@">>, <<"@", "@">> }
      label   == Rep("x", MaxLabelInner + 2)
      rest    == MaxEmailLen - MaxLocalLen - 1 - 2 * (MaxLabelInner + 3)
      domains == { <<"x", ".", "i", "o">>, <<"i", "o">>, <<"x", "i", "o">>,
                   <<"-", "x", ".", "i", "o">>, <<"x", "-", ".", "i", "o">>,
                   label \o <<"x", ".", "i", "o">>,
                   label \o <<".">> \o label \o <<".">> \o Rep("x", rest),
                   label \o <<".">> \o label \o <<".">> \o Rep("x", rest + 1) }
      before  == { <<>>, <<" ">> }
      after   == { <<>>, <<" ">>, <<"\n">> }
  IN { b \o l \o m \o d \o a :
         b \in before, l \in locals, m \in mids, d \in domains, a \in after }

\* is_valid_email(email)
ValidateCall ==
  /\ last_call.op = "none"
  /\ \E email \in CandidateAddresses :
       last_call' = [op |-> "validate", n |-> last_call.n + 1,
                     email_string |-> email, out |-> is_valid_email(email)]
  /\ UNCHANGED <<orchestrator_vars, client, batch>>

ParserNext ==
  \/ ParseCall
  \/ ValidateCall

ParserSpec == ParserInit /\ [][ParserNext]_vars

\* ------------------------------------------- MessageBuilder.template alone
\* what the template file holds after it was edited
EditedTemplate == <<"<","h","1",">">> \o CONTENT_TOKEN

\* The template property of one MessageBuilder b (its path and its
\* _template_content, <<>> for None): the builder and the class-level cache
\* afterwards, the text returned or the exception raised, and whether the
\* file was read
template_property(b, files, cache) ==
  IF b.content # <<>>
  THEN [b |-> b, cache |-> cache, out |-> b.content, raised |-> <<>>, read |-> FALSE]
  ELSE IF b.path \in DOMAIN cache
  THEN [b |-> [b EXCEPT !.content = <<cache[b.path]>>], cache |-> cache,
        out |-> <<cache[b.path]>>, raised |-> <<>>, read |-> FALSE]
  ELSE IF ~template_exists(files, b.path)
  THEN [b |-> b, cache |-> cache, out |-> <<>>,
        raised |-> <<Exc("MessageBuilderError", Msg("Template not found: ", b.path, <<>>, 0, <<>>))>>,
        read |-> FALSE]
  ELSE [b |-> [b EXCEPT !.content = <<files[b.path]>>],
        cache |-> [n \in DOMAIN cache \cup {b.path} |->
                     IF n = b.path THEN files[b.path] ELSE cache[n]],
        out |-> <<files[b.path]>>, raised |-> <<>>, read |-> TRUE]

\* the variables no template operation touches
template_idle_vars ==
  <<pc, args, via_form, form_errors, recipients, message, attempt, last_error,
    body, envelope, result, ops, seen, attempt_error, faults, client, batch>>

\* Two MessageBuilder objects have been constructed, each on one of the
\* template paths; nothing is loaded
TemplateInit ==
  /\ Standby
  /\ client = NoClient
  /\ batch = NoBatch
  /\ \E paths \in [1..2 -> TemplateNames] :
       last_call = [op |-> "none", n |-> 0, who |-> 0,
                    builders |-> [i \in 1..2 |-> [path |-> paths[i], content |-> <<>>]],
                    out |-> <<>>, raised |-> <<>>, read |-> FALSE]

\* builder.template, read by one of the builders
Render ==
  /\ last_call.n < MaxCalls
  /\ \E i \in DOMAIN last_call.builders :
       LET r == template_property(last_call.builders[i], template_files, template_cache)
       IN /\ template_cache' = r.cache
          /\ last_call' = [op |-> "render", n |-> last_call.n + 1, who |-> i,
                           builders |-> [last_call.builders EXCEPT ![i] = r.b],
                           out |-> r.out, raised |-> r.raised, read |-> r.read]
  /\ UNCHANGED <<template_files, template_idle_vars>>

\* somebody edits a template file on disk
EditFile ==
  /\ last_call.n < MaxCalls
  /\ \E name \in DOMAIN template_files :
       /\ template_files[name] # EditedTemplate
       /\ template_files' = [template_files EXCEPT ![name] = EditedTemplate]
  /\ last_call' = [last_call EXCEPT !.op = "edit", !.n = @ + 1, !.who = 0,
                                    !.out = <<>>, !.raised = <<>>, !.read = FALSE]
  /\ UNCHANGED <<template_cache, template_idle_vars>>

\* MessageBuilder.clear_cache()
ClearCache ==
  /\ last_call.n < MaxCalls
  /\ template_cache' = [n \in {} |-> <<>>]
  /\ last_call' = [last_call EXCEPT !.op = "clear_cache", !.n = @ + 1, !.who = 0,
                                    !.out = <<>>, !.raised = <<>>, !.read = FALSE]
  /\ UNCHANGED <<template_files, template_idle_vars>>

TemplateNext ==
  \/ Render
  \/ EditFile
  \/ ClearCache

TemplateSpec == TemplateInit /\ [][TemplateNext]_vars

\* ------------------------------------------------------------- properties
\* the valid addresses an input string holds, as send_email_robust uses them
ValidOf(s) ==
  IF s = <<>> THEN <<>> ELSE parse_email_input(sanitize_email_input(s)).valid

\* the input string holds an entry that fails validation
HasInvalidEntry(s) == validate_email_list(sanitize_email_input(s)).invalid # <<>>

\* sub occurs in s
Occurs(sub, s) ==
  \E i \in 1..(Len(s) - Len(sub) + 1) : SubSeq(s, i, i + Len(sub) - 1) = sub

\* the values of the headers called name
HeaderValues(msg, name) ==
  {msg.headers[i][2] : i \in {j \in 1..Len(msg.headers) : msg.headers[j][1] = name}}

\* addresses that are recipients through the BCC field only
BccOnly == Range(ValidOf(args.bcc_emails))
             \ (Range(ValidOf(args.to_emails)) \cup Range(ValidOf(args.cc_emails)))

\* a delivery attempt is under way: between entering the with statement and
\* the loop's handling of what it produced
InAttempt == pc \in {"send", "exit"}

NoOps == [precheck |-> 0, connect |-> 0, sendmail |-> 0, disconnect |-> 0,
          sleep |-> 0]

Failed == result # <<>> /\ ~result[1].success
Succeeded == result # <<>> /\ result[1].success

\* C1: once pre-check, parsing and assembly have succeeded, k attempts that
\* fail otherwise than by an authentication failure followed by an attempt
\* that yields success=true give overall success after exactly k+1 delivery
\* attempts; the loop does not give up while the budget lasts, makes no
\* attempt after a successful one, and never makes more than max_retries+1.
\* A delivery attempt is one run of the with statement (one session opened);
\* its outcome is what the loop receives from it, and an authentication
\* failure is an SMTPClientError holding the words the loop looks for.
C1_RetryUntilSuccess ==
  /\ ops.connect <= args.max_retries + 1
  /\ seen.failed <= args.max_retries + 1
  /\ seen.ok + seen.auth <= 1
  /\ InAttempt => ops.connect = seen.failed + 1 /\ seen.ok = 0 /\ seen.auth = 0
  /\ seen.ok = 1 =>
       /\ pc = "done"
       /\ result = <<Ret(TRUE, Msg("Email sent successfully to recipient(s)", "",
                                   <<>>, Len(envelope), <<>>))>>
       /\ ops.connect = seen.failed + 1
       /\ ops.sendmail <= ops.connect
  /\ pc = "sleep" => seen.failed <= args.max_retries
  /\ (pc = "done" /\ ops.connect > 0 /\ seen.ok = 0 /\ seen.auth = 0) =>
       seen.failed = args.max_retries + 1 /\ ops.connect = seen.failed

\* the default budget: two failed attempts, then success on the third
C1_Witness ==
  /\ pc = "done" /\ Succeeded
  /\ args.max_retries = DefaultMaxRetries
  /\ seen.failed = DefaultMaxRetries /\ seen.ok = 1
  /\ ops.connect = DefaultMaxRetries + 1

\* C2: an authentication failure at connect time ends the call at once with
\* the authentication guidance message: the attempt that met it is the last
\* one, no back-off follows it, and a relay that rejects the credentials from
\* the start sees exactly one attempt, whatever max_retries is.
C2_AuthFailureStops ==
  attempt_error.text = AuthGuidanceText =>
    /\ pc = "done"
    /\ result = <<Ret(FALSE, M(AuthGuidanceText))>>
    /\ seen.auth = 1 /\ seen.ok = 0
    /\ ops.connect = seen.failed + 1
    /\ ops.sleep = seen.failed
    /\ attempt = seen.failed
    /\ (seen.failed = 0 => ops.connect = 1 /\ ops.sleep = 0 /\ ops.sendmail = 0)

\* the credentials are rejected on the first attempt of a call with retries left
C2_Witness ==
  /\ attempt_error.text = AuthGuidanceText
  /\ args.max_retries = DefaultMaxRetries /\ ops.connect = 1
  /\ pc = "done" /\ Failed

\* C3: when all max_retries+1 attempts fail without an authentication failure
\* the call returns failure, and its message holds the attempt count
\* max_retries+1 and the error of the last attempt.
C3_ExhaustedReportsLastError ==
  (pc = "done" /\ seen.failed = args.max_retries + 1) =>
    /\ result = <<Ret(FALSE, Msg("Failed after attempts: ", "", <<>>,
                                 args.max_retries + 1, <<attempt_error>>))>>
    /\ last_error = attempt_error
    /\ ops.connect = args.max_retries + 1

\* the default budget spent on failed attempts, the last one a refused sender
C3_Witness ==
  /\ pc = "done" /\ Failed
  /\ args.max_retries = DefaultMaxRetries
  /\ seen.failed = DefaultMaxRetries + 1
  /\ attempt_error.text = "Sender address refused: "

\* C4: a built message has no Bcc header; its To and Cc headers carry the to
\* and cc lists and nothing else; an address that is a recipient through BCC
\* only occurs in no header value; and the recipient list handed to
\* SMTPClient.send is to + cc + bcc, so that it holds that address.
C4_BccOnlyInEnvelope ==
  /\ message # <<>> =>
       LET msg == message[1]
       IN /\ \A i \in 1..Len(msg.headers) :
               /\ msg.headers[i][1] \in {"Subject", "From", "To", "Cc"}
               /\ \A a \in BccOnly : ~Occurs(a, msg.headers[i][2])
          /\ HeaderValues(msg, "Bcc") = {}
          /\ HeaderValues(msg, "To") =
               {str_join(<<",", " ">>, ValidOf(args.to_emails))}
          /\ HeaderValues(msg, "Cc") =
               IF ValidOf(args.cc_emails) = <<>> THEN {}
               ELSE {str_join(<<",", " ">>, ValidOf(args.cc_emails))}
  /\ ops.sendmail > 0 =>
       /\ envelope = ValidOf(args.to_emails) \o ValidOf(args.cc_emails)
                       \o ValidOf(args.bcc_emails)
       /\ BccOnly \subseteq Range(envelope)

\* a message with a BCC-only recipient has been handed to the relay
C4_Witness ==
  /\ ops.sendmail > 0 /\ message # <<>>
  /\ Dave \in BccOnly /\ Dave \in Range(envelope)
  /\ ValidOf(args.cc_emails) # <<>>

\* C5 (as stated): send_email_robust treats any invalid entry of the To input
\* as fatal: the call returns failure and makes no delivery attempt, even
\* when other To entries are valid.
C5_AnyInvalidToIsFatal ==
  (HasInvalidEntry(args.to_emails) /\ pc \notin {"idle", "rejected"}) =>
    ops.connect = 0 /\ ~Succeeded

\* C5 (amended): the form's Send handler treats any invalid entry of the To
\* input as fatal (validate_form reports it and send_email_robust is not
\* called); send_email_robust itself drops the invalid entries and goes on
\* with the valid ones, and fails without a delivery attempt only when the To
\* input yields no valid address.
C5_InvalidToFatalInForm ==
  /\ (via_form /\ HasInvalidEntry(args.to_emails)) =>
       /\ pc = "rejected"
       /\ \E i \in 1..Len(form_errors) : form_errors[i].text = "Invalid email(s): "
       /\ ops = NoOps /\ result = <<>>
  /\ (HasInvalidEntry(args.to_emails) /\ ValidOf(args.to_emails) # <<>>
        /\ pc \in {"build", "connect", "send", "exit", "sleep"}) =>
       ~via_form /\ recipients.to = ValidOf(args.to_emails)
  /\ (ValidOf(args.to_emails) = <<>> /\ pc # "idle") =>
       ops.connect = 0 /\ ~Succeeded

\* the form is rejected for one invalid entry next to a valid one
C5_Witness ==
  /\ via_form /\ pc = "rejected"
  /\ HasInvalidEntry(args.to_emails) /\ ValidOf(args.to_emails) # <<>>

\* C6: when the connectivity pre-check fails the call returns the network
\* error at once, with no parsing, no assembly, no session, no retry and no
\* back-off; and the pre-check is made exactly once per call.
C6_PrecheckShortCircuits ==
  /\ ops.precheck <= 1
  /\ pc \in {"parse", "build", "connect", "send", "exit", "sleep", "done"} =>
       ops.precheck = 1
  /\ faults.net_down =>
       /\ pc = "done"
       /\ result = <<Ret(FALSE, M(NetworkErrorText))>>
       /\ ops = [NoOps EXCEPT !.precheck = 1]
       /\ recipients = NoRecipients /\ message = <<>>
       /\ DOMAIN template_cache = {}
       /\ attempt = 0 /\ seen.failed = 0

\* the network is down for a call that had retries to spend
C6_Witness ==
  faults.net_down /\ pc = "done" /\ Failed /\ args.max_retries = 2

AssemblyFault ==
  \/ faults.file_unread
  \/ faults.template_gone
  \/ ~template_exists(template_files, args.template_name)

InputErrorTexts ==
  {"No valid recipients found", "Failed to build message: ",
   "Attachment not found: ", "Cannot read attachment: ", "Error reading : ",
   "Message build error: "}

InputErrorResult == Failed /\ result[1].message.text \in InputErrorTexts

\* C7: when the To input yields no valid address, or assembly fails (the
\* template is missing, an attachment is missing or cannot be read, build
\* raises), the call returns failure at once: no session is opened, nothing
\* is retried; a delivery attempt is made only after both steps succeeded.
C7_NoDeliveryAfterBuildFailure ==
  /\ (pc \in {"connect", "send", "exit", "sleep"} \/ ops.connect > 0) =>
       /\ ValidOf(args.to_emails) # <<>> /\ ~AssemblyFault
       /\ recipients.to = ValidOf(args.to_emails) /\ message # <<>>
  /\ pc = "build" => ValidOf(args.to_emails) # <<>>
  /\ (pc = "done" /\ ~faults.net_down
        /\ (ValidOf(args.to_emails) = <<>> \/ AssemblyFault)) =>
       /\ InputErrorResult
       /\ message = <<>>
       /\ ops = [NoOps EXCEPT !.precheck = 1]
       /\ seen.failed = 0 /\ attempt = 0

\* an attachment could not be read and the call has returned
C7_Witness ==
  /\ pc = "done" /\ faults.file_unread /\ Failed
  /\ ops.connect = 0 /\ args.max_retries = 2

\* C8 (as stated): a run of send_email_robust that ends in an input-error
\* result opened no network connection, neither the pre-check's nor an SMTP
\* one, before the error was detected.
C8_InputErrorsBeforeNetwork ==
  (pc = "done" /\ InputErrorResult) => ops.precheck = 0 /\ ops.connect = 0

\* C8 (amended): input errors are detected before any SMTP session is opened.
\* The form's Send handler detects the errors validate_form knows (among them
\* invalid recipient syntax and a missing template) before any network
\* activity; a run of send_email_robust that ends in an input-error result
\* has made the connectivity pre-check, once, and opened no SMTP connection.
C8_InputErrorsBeforeSession ==
  /\ pc = "rejected" => form_errors # <<>> /\ ops = NoOps /\ result = <<>>
  /\ (via_form /\ ~faults.template_gone
        /\ (HasInvalidEntry(args.to_emails)
              \/ ~template_exists(template_files, args.template_name))) =>
       pc = "rejected"
  /\ (pc = "done" /\ InputErrorResult) =>
       ops = [NoOps EXCEPT !.precheck = 1]

\* a form that passed validation, then a missing attachment after the pre-check
C8_Witness ==
  /\ via_form /\ pc = "done" /\ ops.precheck = 1
  /\ result = <<Ret(FALSE, Msg("Attachment not found: ", "notes.txt", <<>>, 0, <<>>))>>

CallPcs == {"idle", "rejected", "precheck", "parse", "build", "connect",
            "send", "exit", "sleep", "done"}

WellFormedResult ==
  /\ Len(result) = 1
  /\ result[1].success \in BOOLEAN
  /\ result[1].success =>
       /\ result[1].message.text = "Email sent successfully to recipient(s)"
       /\ result[1].message.n = Len(all_recipients(recipients))
       /\ result[1].message.n >= 1
  /\ ~result[1].success => result[1].message.text # ""

\* the steps the call can still take at most: four per attempt left (connect,
\* send, leave the with statement, sleep) and those before the loop
StepsLeft ==
  CASE pc = "idle"     -> 4 * (args.max_retries + 1) + 4
    [] pc = "precheck" -> 4 * (args.max_retries + 1) + 3
    [] pc = "parse"    -> 4 * (args.max_retries + 1) + 2
    [] pc = "build"    -> 4 * (args.max_retries + 1) + 1
    [] pc = "connect"  -> 4 * (args.max_retries - attempt) + 3
    [] pc = "send"     -> 4 * (args.max_retries - attempt) + 2
    [] pc = "exit"     -> 4 * (args.max_retries - attempt) + 1
    [] pc = "sleep"    -> 4 * (args.max_retries - attempt)
    [] OTHER           -> 0

\* C9: every call of send_email_robust terminates with exactly one outcome, a
\* (success, message) pair that is success with a recipient count or failure
\* with an error message: no exception leaves the call, the call has a result
\* exactly when it has returned, the result never changes afterwards, and
\* the loop cannot run forever, since every step of the call lowers the
\* number of steps it can still take, which is zero only once it is over.
C9_OneFinalOutcome ==
  /\ [](pc \in CallPcs)
  /\ [](pc = "done" <=> result # <<>>)
  /\ [](result # <<>> => WellFormedResult)
  /\ [](StepsLeft \in Nat /\ (StepsLeft = 0 <=> pc \in {"done", "rejected"}))
  /\ [][result # <<>> => result' = result /\ pc' = pc]_vars
  /\ [][StepsLeft' < StepsLeft]_vars

\* a call made from the form has returned success after one failed attempt
C9_Witness ==
  via_form /\ pc = "done" /\ Succeeded /\ seen.failed = 1 /\ ops.sleep = 1

\* C10: outside the with statement, however it was left (normally, by an
\* exception of the body, or by an exception raised while connect() ran),
\* disconnect() has run for every session that was begun and the client's
\* connection handle is None.
C10_ReleasedOnEveryExit ==
  ~InAttempt => client.connection = <<>> /\ ops.disconnect = ops.connect

\* C11: disconnect() never raises and always releases the handle: whatever
\* goes wrong in the QUIT exchange, a protocol error or any other error, it
\* returns normally with the handle None; on a client without a connection
\* it does nothing.
C11_DisconnectNeverRaises ==
  last_call.op = "disconnect" =>
    /\ last_call.raised = <<>>
    /\ client.connection = <<>>
    /\ (last_call.before = <<>> => last_call.outcome = "none")

\* C12: a failed QUIT never masks the outcome of the send before it: when an
\* attempt's send returned success=true and the teardown of its session
\* fails, the call returns overall success and makes no further attempt.
C12_QuitFailureNeverMasksSend ==
  [][(pc = "exit" /\ body.result # <<>> /\ body.result[1].success
        /\ faults'.quit_failed)
       => (pc' = "done" /\ result' # <<>> /\ result'[1].success)]_vars

HardOutcomes == {"SMTPRecipientsRefused", "SMTPSenderRefused", "SMTPDataError"}

\* C13: send raises for the three hard delivery errors (every recipient
\* refused, the sender refused, a data error) and never returns them as a
\* success=false result; a success=false result with a list of rejected
\* recipients comes only from a transaction the relay accepted while
\* rejecting some, but not all, of the recipients.
C13_HardErrorsRaise ==
  (last_call.op = "send" /\ last_call.submitted) =>
    /\ last_call.outcome \in HardOutcomes =>
         last_call.raised # <<>> /\ last_call.result = <<>>
    /\ (last_call.result # <<>> /\ ~last_call.result[1].success) =>
         /\ last_call.outcome = "rejected"
         /\ last_call.result[1].errors # {}
         /\ last_call.result[1].errors # Range(all_recipients(SampleRecipients))
         /\ last_call.result[1].errors \subseteq Range(all_recipients(SampleRecipients))

\* C14: send on a client without an open connection, one never connected or
\* one that was disconnected, raises the not-connected error, hands nothing
\* to the relay and leaves the client as it was; a send that succeeds was
\* made on an open connection.
C14_SendNeedsConnection ==
  last_call.op = "send" =>
    /\ client.connection = last_call.before
    /\ last_call.before = <<>> =>
         /\ last_call.raised = <<Exc("SMTPClientError", M(NotConnectedText))>>
         /\ last_call.result = <<>>
         /\ ~last_call.submitted /\ last_call.outcome = "none"
    /\ (last_call.result # <<>> \/ last_call.submitted) => last_call.before # <<>>
    /\ \A i \in 1..Len(last_call.trail) :
         (last_call.trail[i][1] = "disconnect" /\ i < Len(last_call.trail)
            /\ last_call.trail[i + 1][1] = "send") => ~last_call.trail[i + 1][2]

\* connect, disconnect, then a send that is refused
C14_Witness ==
  /\ last_call.op = "send"
  /\ last_call.trail = << <<"connect", TRUE>>, <<"disconnect", TRUE>>, <<"send", FALSE>> >>
  /\ last_call.before = <<>> /\ ~last_call.submitted

BuildFails(recipient_data) == message_builder_func(recipient_data).raised # <<>>

\* C15: a batch send, in either variant, returns one result record per
\* descriptor, record i carrying descriptor i. A descriptor whose building
\* or sending raised has a success=false record and stops nothing: every
\* descriptor that could be built had send() called for it exactly once and
\* is marked by what its own send produced. The concurrent variant returns
\* only when no send is queued or running.
C15_OneRecordPerDescriptor ==
  (batch.mode # "none" /\ batch.returned # <<>>) =>
    LET res == batch.returned[1]
        ds  == batch.descriptors
    IN /\ Len(res) = Len(ds)
       /\ \A i \in 1..Len(ds) :
            /\ res[i].recipient_data = ds[i]
            /\ batch.status[i] = "done"
            /\ IF BuildFails(ds[i])
               THEN /\ ~res[i].success
                    /\ res[i].message = M("At least one recipient required")
                    /\ batch.calls[i] = 0
               ELSE /\ batch.calls[i] = 1
                    /\ res[i].success <=> batch.outcome[i] = "accepted"
                    /\ batch.outcome[i] \in {"none", "SMTPSenderRefused", "SMTPDataError",
                                             "SMTPException", "Exception"}
                         => (~res[i].success /\ res[i].errors = {})

\* a concurrent batch of three: the first descriptor cannot be built, the
\* send of the second raises, the third is delivered
C15_Witness ==
  /\ batch.mode = "async" /\ batch.returned # <<>>
  /\ Len(batch.descriptors) = 3
  /\ BuildFails(batch.descriptors[1])
  /\ batch.outcome[2] = "SMTPDataError" /\ ~batch.returned[1][2].success
  /\ batch.returned[1][3].success

\* C16: in send_batch_async every send has an SMTP session of its own: no
\* two sends are inside self.send at the same time on one connection.
C16_OwnSessionPerSend ==
  batch.mode = "async" =>
    \A i, j \in 1..Len(batch.descriptors) :
      (i # j /\ batch.status[i] = "sending" /\ batch.status[j] = "sending"
         /\ batch.conn[i] # <<>>)
        => batch.conn[i] # batch.conn[j]

\* the alternative container of a built message
BodyContainer(msg) == IF msg.subtype = "mixed" THEN msg.parts[1] ELSE msg

\* C17: the message build returns is, for a non-empty attachment list, a
\* mixed container whose first part is the alternative container and whose
\* other parts are one part per attachment, in the order given; without
\* attachments it is the alternative container itself. The alternative
\* container holds two parts, the plain text and then the HTML, and the
\* plain text is the fixed default when no fallback was passed.
C17_MimeStructure ==
  (last_call.op = "build" /\ last_call.out.ok) =>
    LET msg  == last_call.out.msg
        atts == last_call.attachments
        alt  == BodyContainer(msg)
    IN /\ IF atts # <<>>
          THEN /\ msg.subtype = "mixed"
               /\ Len(msg.parts) = 1 + Len(atts)
               /\ \A i \in 1..Len(atts) :
                    /\ msg.parts[i + 1].disposition = <<"attachment", atts[i].filename>>
                    /\ atts[i].content_type # <<>> =>
                         <<msg.parts[i + 1].maintype, msg.parts[i + 1].subtype>>
                           = atts[i].content_type[1]
          ELSE msg.subtype = "alternative"
       /\ alt.subtype = "alternative"
       /\ Len(alt.parts) = 2
       /\ alt.parts[1].maintype = "text" /\ alt.parts[1].subtype = "plain"
       /\ alt.parts[2].maintype = "text" /\ alt.parts[2].subtype = "html"
       /\ alt.parts[1].payload =
            (IF last_call.plain_text_fallback = <<>> THEN DefaultPlainText
             ELSE last_call.plain_text_fallback[1])
       /\ alt.parts[2].payload = inject_content(BaseTemplate, BodyHtml, <<>>)

\* two attachments and no fallback
C17_Witness ==
  /\ last_call.op = "build" /\ last_call.out.ok
  /\ Len(last_call.attachments) = 2
  /\ last_call.attachments[1].filename # last_call.attachments[2].filename
  /\ last_call.plain_text_fallback = <<>>
  /\ last_call.out.msg.subtype = "mixed"

\* C18: build needs a non-empty to list: with to = [] it raises, also when
\* cc or bcc hold addresses, and returns no message.
C18_BuildRequiresTo ==
  (last_call.op = "build" /\ last_call.recipients.to = <<>>) => ~last_call.out.ok

\* the addresses the three input fields of the call hold, one after another
EnteredAddresses ==
  ValidOf(args.to_emails) \o ValidOf(args.cc_emails) \o ValidOf(args.bcc_emails)

\* C19: on overall success the number in the success message is the number
\* of distinct addresses across To, CC and BCC: an address entered more
\* than once, within a field or across fields, is counted once.
C19_CountsDistinctRecipients ==
  Succeeded => result[1].message.n = Cardinality(Range(EnteredAddresses))

\* C19 (as amended): on overall success the number in the success message
\* is the length of to + cc + bcc, which is also the number of envelope
\* recipients handed to the relay: an address entered more than once is
\* counted every time it was entered.
C19_CountsEveryEntry ==
  Succeeded =>
    /\ result[1].message.n = Len(EnteredAddresses)
    /\ result[1].message.n = Len(envelope)
    /\ result[1].message.n >= Cardinality(Range(EnteredAddresses))

\* success with the same address in To and in CC
C19_Witness ==
  /\ Succeeded
  /\ args.to_emails = Alice /\ args.cc_emails = Alice
  /\ result[1].message.n > Cardinality(Range(EnteredAddresses))

RECURSIVE EntriesOf(_)
\* the entries of a typed text: what stands between two of the separators
\* , ; newline and tab, trimmed, the empty ones left out
EntriesOf(s) ==
  IF \A i \in 1..Len(s) : s[i] \notin Separators
  THEN (IF str_strip(s) = <<>> THEN <<>> ELSE <<str_strip(s)>>)
  ELSE LET i == CHOOSE k \in 1..Len(s) :
                  s[k] \in Separators /\ \A j \in 1..(k - 1) : s[j] \notin Separators
           first == str_strip(SubSeq(s, 1, i - 1))
       IN (IF first = <<>> THEN <<>> ELSE <<first>>)
          \o EntriesOf(SubSeq(s, i + 1, Len(s)))

\* C20: parse_email_input(sanitize_email_input(s)) sorts the non-empty
\* trimmed entries of s into two: the valid list holds the entries that pass
\* is_valid_email, in input order; the error names the entries that fail, in
\* "Invalid email(s): ..."; every entry is in exactly one of the two; the
\* error is None exactly when no entry fails; and the valid entries are
\* returned also when there is an error.
C20_ParsePartitionsEntries ==
  last_call.op = "parse" =>
    LET entries == EntriesOf(last_call.email_string)
        good    == SelectSeq(entries, is_valid_email)
        bad     == SelectSeq(entries, NotValidEmail)
        out     == last_call.out
    IN /\ out.valid = good
       /\ (out.error = <<>>) <=> (bad = <<>>)
       /\ out.error # <<>> =>
            /\ out.error[1].text = "Invalid email(s): "
            /\ out.error[1].detail = str_join(<<",", " ">>, bad)
       /\ Len(good) + Len(bad) = Len(entries)
       /\ \A i \in 1..Len(entries) :
            (entries[i] \in Range(good)) # (entries[i] \in Range(bad))

\* two addresses around a word that is no address, with two kinds of separator
C20_Witness ==
  /\ last_call.op = "parse"
  /\ last_call.email_string = Alice \o <<";">> \o BadEntry \o <<"\n">> \o Alice
  /\ last_call.out.valid = <<Alice, Alice>>
  /\ last_call.out.error = <<InvalidEmailsMsg(<<BadEntry>>)>>

\* how many times a stands in the sequence s
Times(a, s) == Cardinality({i \in 1..Len(s) : s[i] = a})

\* C21: the valid list returned by parse_email_input(sanitize_email_input(s))
\* holds no address twice, also when the input repeats an address.
C21_ValidListHasNoDuplicate ==
  last_call.op = "parse" =>
    \A i, j \in 1..Len(last_call.out.valid) :
      i # j => last_call.out.valid[i] # last_call.out.valid[j]

\* C21 (as amended): the valid list is a list, not a set: it holds every
\* valid address as many times as the input holds it, and nothing else.
C21_ValidListKeepsRepeats ==
  last_call.op = "parse" =>
    LET entries == EntriesOf(last_call.email_string)
        valid   == last_call.out.valid
    IN \A a \in Range(entries) \cup Range(valid) :
         Times(a, valid) = (IF is_valid_email(a) THEN Times(a, entries) ELSE 0)

\* the same address typed twice
C21_Witness ==
  /\ last_call.op = "parse"
  /\ last_call.email_string = Alice \o <<",">> \o Alice
  /\ Times(Alice, last_call.out.valid) = 2

\* one @, a length of 3 to 254, a local part of 1 to 64 characters, a domain
\* of at least 3, and the grammar of atoms and labels
WellFormedAddress(A) ==
  /\ str_count(A, "@") = 1
  /\ Len(A) >= MinEmailLen /\ Len(A) <= MaxEmailLen
  /\ LET at == CHOOSE i \in 1..Len(A) : A[i] = "@"
     IN /\ at - 1 >= 1 /\ at - 1 <= MaxLocalLen
        /\ Len(A) - at >= MinDomainLen
  /\ PatternFullMatch(A)

\* every address of a parser's valid list validates again, alone
RevalidatesAlone ==
  last_call.op = "parse" =>
    \A i \in 1..Len(last_call.out.valid) :
      /\ is_valid_email(last_call.out.valid[i])
      /\ WellFormedAddress(last_call.out.valid[i])

\* C22: is_valid_email(A) is true exactly when A itself has one @, a length
\* of 3 to 254, a local part of 1 to 64 characters, a domain of at least 3
\* and matches the grammar, so that a string with whitespace before or
\* after it is not valid; and an address of the parser's valid list
\* validates again when passed alone.
C22_ValidIffWellFormed ==
  /\ last_call.op = "validate" =>
       (last_call.out <=> WellFormedAddress(last_call.email_string))
  /\ RevalidatesAlone

\* C22 (as amended): is_valid_email(A) is true exactly when A, trimmed of
\* the whitespace around it, has one @, a length of 3 to 254, a local part
\* of 1 to 64 characters, a domain of at least 3 and matches the grammar: a
\* string with whitespace before or after a well-formed address is valid;
\* and an address of the parser's valid list, which is trimmed, validates
\* again when passed alone.
C22_ValidIffTrimmedWellFormed ==
  /\ last_call.op = "validate" =>
       (last_call.out <=> WellFormedAddress(str_strip(last_call.email_string)))
  /\ RevalidatesAlone

\* a well-formed address of 254 characters with a blank before it and a
\* newline after it is accepted
C22_Witness ==
  /\ last_call.op = "validate" /\ last_call.out
  /\ Len(last_call.email_string) = MaxEmailLen + 2
  /\ last_call.email_string[1] = " "
  /\ last_call.email_string[Len(last_call.email_string)] = "\n"

\* the attempt before this one ended with the relay taking the message for
\* some recipients and rejecting the others
PartlyAccepted == seen.last = "soft" /\ last_error.text = "Some recipients rejected: "

\* the recipients the relay took the message for in that attempt
AcceptedBefore == Range(all_recipients(recipients)) \ Range(last_error.addrs)

\* C23: within one call no recipient gets the message twice: after an
\* attempt in which the relay accepted the message for some recipients and
\* rejected the others, no later attempt hands the message to the relay
\* for a recipient it was already accepted for.
C23_NoRedelivery ==
  [][(pc = "send" /\ PartlyAccepted /\ body'.submitted)
       => Range(envelope') \cap AcceptedBefore = {}]_vars

\* C24: when send_email_robust returns, it has closed every network
\* connection it opened: the socket of the connectivity pre-check and the
\* SMTP connection of each attempt, also one whose connect() failed after
\* the TCP connection was made; and no retry starts while the connection of
\* an earlier attempt is still open.
C24_ConnectionsClosedOnReturn ==
  /\ pc = "done" => (client.connection = <<>> /\ ProbeSockets = {})
  /\ (pc \in {"sleep", "connect"} /\ attempt + seen.failed > 0) =>
       client.connection = <<>>

\* C25: the back-off sleeps stand exactly between consecutive attempts: a
\* sleep follows a failed attempt and is followed by the next attempt; every
\* attempt but the first is preceded by one sleep; there is no sleep after
\* the final attempt, after a successful one or after an authentication
\* failure; when all attempts are spent the call has slept max_retries times.
C25_SleepsBetweenAttempts ==
  /\ [](pc = "connect" => ops.sleep = ops.connect)
  /\ [](pc \in {"send", "exit", "sleep"} => ops.sleep = ops.connect - 1)
  /\ []((pc = "done" /\ ops.connect > 0) => ops.sleep = ops.connect - 1)
  /\ [](pc = "sleep" => (seen.failed = ops.connect /\ ops.connect <= args.max_retries))
  /\ []((pc = "done" /\ seen.failed = args.max_retries + 1) =>
          ops.sleep = args.max_retries)
  /\ []((seen.ok = 1 \/ seen.auth = 1) => (pc = "done" /\ ops.sleep = seen.failed))
  /\ [][pc' = "sleep" => (pc = "exit" \/ pc = "connect") /\ seen'.failed = seen.failed + 1]_vars
  /\ [][pc = "sleep" => (pc' = "connect" /\ ops'.sleep = ops.sleep + 1)]_vars

\* the default budget spent: three attempts failed, two sleeps
C25_Witness ==
  /\ pc = "done" /\ Failed
  /\ args.max_retries = DefaultMaxRetries
  /\ seen.failed = DefaultMaxRetries + 1
  /\ ops.sleep = DefaultMaxRetries

\* the path of the builder that has just rendered
RenderedPath == last_call'.builders[last_call'.who].path

\* C26: the template cache is keyed by path and emptied only by
\* clear_cache(): a render of a path that is in the cache, by any builder,
\* returns the cached text and does not read the file, whatever the file
\* holds by then; and a render of a path that is not in the cache, as is
\* the first render after clear_cache(), reads the file and returns what it
\* holds now.
C26_CacheUntilCleared ==
  [][last_call'.op = "render" =>
       /\ RenderedPath \in DOMAIN template_cache =>
            /\ last_call'.out = <<template_cache[RenderedPath]>>
            /\ ~last_call'.read
            /\ template_cache' = template_cache
       /\ (RenderedPath \notin DOMAIN template_cache
             /\ template_exists(template_files, RenderedPath)) =>
            /\ last_call'.read
            /\ last_call'.out = <<template_files[RenderedPath]>>
            /\ RenderedPath \in DOMAIN template_cache']_vars

\* how many times sub stands in s
CountOcc(sub, s) ==
  Cardinality({i \in 1..(Len(s) - Len(sub) + 1) : SubSeq(s, i, i + Len(sub) - 1) = sub})

\* the keys of a mapping
KeysOf(placeholders) == {placeholders[i][1] : i \in 1..Len(placeholders)}

\* piece is not the token of a key of the mapping
NoKeyToken(piece, placeholders) ==
  \A k \in KeysOf(placeholders) : ~Occurs(PlaceholderToken(k), piece)

\* C27: inject_content does not substitute again inside the body: with a
\* body that holds the literal {{CONTENT}} and a mapping without the key
\* CONTENT, the body is put in once, at the site of the template, the
\* {{CONTENT}} inside the body stays as it is, and the tokens of the template
\* that are neither {{CONTENT}} nor the token of a key stay unchanged.
C27_NoResubstitution ==
  last_call.op = "inject" =>
    LET pre  == last_call.pre
        post == last_call.post
        injected == last_call.content
        map  == last_call.placeholders
        out  == last_call.out
    IN /\ CountOcc(CONTENT_TOKEN, out) = CountOcc(CONTENT_TOKEN, injected)
       /\ map = <<>> => out = pre \o injected \o post
       /\ NoKeyToken(pre, map) => SubSeq(out, 1, Len(pre)) = pre
       /\ NoKeyToken(post, map) => SubSeq(out, Len(out) - Len(post) + 1, Len(out)) = post
       /\ (NoKeyToken(pre, map) /\ NoKeyToken(injected, map) /\ NoKeyToken(post, map)) =>
            out = pre \o injected \o post

\* a body holding {{CONTENT}}, a mapping, and a token of the template that
\* is no key
C27_Witness ==
  /\ last_call.op = "inject"
  /\ last_call.content = <<"a">> \o CONTENT_TOKEN \o <<"b">>
  /\ last_call.placeholders # <<>>
  /\ last_call.pre = PlaceholderToken(KeyH)
  /\ last_call.out = PlaceholderToken(KeyH) \o last_call.content \o last_call.post

\* s begins with p
StartsWith(s, p) == Len(s) >= Len(p) /\ SubSeq(s, 1, Len(p)) = p

\* the mapping holds F and G, and the value of F holds the token of G
Chained(placeholders) ==
  /\ KeysOf(placeholders) = {KeyF, KeyG}
  /\ \E i \in 1..Len(placeholders) :
       placeholders[i] = <<KeyF, PlaceholderToken(KeyG)>>

\* C28: substitution is one pass per key: when the value of a key holds the
\* token of another key of the same mapping, that token is not substituted
\* in its turn and stays as it is in the output, for every order of the keys.
C28_ValueTokenStays ==
  (last_call.op = "inject" /\ Chained(last_call.placeholders)
     /\ last_call.pre = PlaceholderToken(KeyF)) =>
    StartsWith(last_call.out, PlaceholderToken(KeyG))

\* C28 (as amended): each key gets one pass over the whole text, in the
\* order of the mapping: the token of another key inside a value stays as
\* it is only when that key's pass came before; when that key comes later in
\* the mapping, its pass replaces the token inside the inserted value too.
C28_ValueTokenByOrder ==
  (last_call.op = "inject" /\ Chained(last_call.placeholders)
     /\ last_call.pre = PlaceholderToken(KeyF)) =>
    LET map == last_call.placeholders
        out == last_call.out
    IN IF map[1][1] = KeyG
       THEN StartsWith(out, PlaceholderToken(KeyG))
       ELSE /\ StartsWith(out, map[2][2])
            /\ ~Occurs(PlaceholderToken(KeyG), out)

\* F before G in the mapping: the token that came with the value of F has
\* been replaced by the value of G
C28_Witness ==
  /\ last_call.op = "inject"
  /\ last_call.placeholders = << <<KeyF, PlaceholderToken(KeyG)>>, <<KeyG, <<"w">>>> >>
  /\ last_call.pre = PlaceholderToken(KeyF) /\ last_call.post = <<>>
  /\ last_call.content = <<"y", "o">>
  /\ last_call.out = <<"w", "y", "o">>

NotASpace(c) == c # " "
NotWhitespace(c) == c \notin Whitespace

\* C29: the app password is used without any whitespace in it: the
\* credential of every SMTP session of the call holds no space, tab or
\* newline and is otherwise the characters of the password in their order,
\* the same on every attempt.
C29_NoWhitespaceInCredential ==
  client # NoClient =>
    client.app_password = SelectSeq(args.app_password, NotWhitespace)

\* C29 (as amended): the app password is used without the spaces in it:
\* the credential of every SMTP session of the call is the password with
\* its space characters removed, every other character, a tab or a newline
\* included, kept in its order; the same on every attempt.
C29_NoSpaceInCredential ==
  /\ client # NoClient =>
       client.app_password = SelectSeq(args.app_password, NotASpace)
  /\ pc = "send" => client # NoClient

\* the second attempt of a call made with a password that holds a tab
C29_Witness ==
  /\ pc = "send" /\ attempt = 1
  /\ args.app_password = PastedPassword
  /\ "\t" \in Range(client.app_password)
  /\ " " \notin Range(client.app_password)

====
